---- MODULE Spec2Model ----
(***************************************************************************)
(* Model of the EPIC ingestion pipeline of pdi_nomad_plugin:               *)
(*   - utils.create_archive and its NaN-aware comparison (SpecArchive),    *)
(*   - ParserEpicPDI.parse as a sequence of steps over one upload (Spec),  *)
(*   - the shutter step-hold vector of the flux calculator (SpecFlux).     *)
(***************************************************************************)
EXTENDS Integers, Sequences, FiniteSets, TLC

VARIABLES
    files,          \* raw files of the upload: name -> [exists, text]
    processed,      \* names handed to upload.process_updated_raw_file
    first,          \* history: name -> dict of the first server call on it
    overwritten,    \* history: names that received a call with overwrite=True
    prev,           \* history: the create_archive call before the last one
    last,           \* history: the last create_archive call and its outcome
    callOf,         \* history: name -> the latest create_archive call on it
    ncalls,         \* number of create_archive calls made (SpecArchive)
    pc,             \* position of ParserEpicPDI.parse
    err,            \* the exception that ended the run, or None
    sheets,         \* the spreadsheet as read: "unread", "ok", "missing"
    messages_cell,  \* config_sheet["messages"] as read
    growth_starttime, \* "unset", None or the epoch "t0"
    fitting,        \* "unset", None or "dict" (the loops of Calibrated)
    shutters,       \* "unset", None, or how TimeDifference was computed
    container,      \* the run's HDF5 file
    sheet,          \* rows of the sources sheet iterated so far
    sources,        \* child_archives["process"].data.steps[0].sources
    port_list,      \* child_archives["instrument"].data.port_list
    source_object,  \* the local variable source_object
    temp_mv_time,   \* the local variable temp_mv_time: the row that set it
    link_called,    \* link_experiment was called
    exp_patched,    \* the experiment mainfile was rewritten by link_experiment
    shutter_trace,  \* flux calculator: rows of the shutters table for one loop
    time_vector,    \* flux calculator: the temperature time axis
    shutter_vector, \* flux calculator: the modulation vector built
    fpc,            \* flux calculator: "idle", "ready" or "done"
    imp_in,         \* impinging flux: the inputs of one flux computation
    imp_out,        \* impinging flux: what parse and utils made of them
    chan_in,        \* channel reading: the dataframe, its cells and the log file
    chan_out,       \* channel reading: the results of the utils readers
    search_data,    \* linking: search_result.data of nomad.search.search
    link_out,       \* linking: the outcome of the last link call
    runs,           \* upload: the parse runs of the mainfiles of one upload
    raw,            \* upload: the raw directory shared by the runs
    gas_in,         \* gas mixing: the sheet and the growth start
    gas_out,        \* gas mixing: source_object.gas_flow after the loop
    hdf_run,        \* container handles: the with-blocks of one run and the open handles
    row_in,         \* source filling: the cells of one row of the sources sheet
    row_out,        \* source filling: the Source object made of them
    samples,        \* sample status: the substrates of a holder and the growths normalized
    nan_cmp         \* NaN-aware comparison: two values and what comparing them gave

archiveVars == <<files, processed, first, overwritten, prev, last, callOf, ncalls>>

parseVars ==
    <<pc, err, sheets, messages_cell, growth_starttime, fitting, shutters, container,
      sheet, sources, port_list, source_object, temp_mv_time, link_called, exp_patched>>

fluxVars == <<shutter_trace, time_vector, shutter_vector, fpc>>

impVars == <<imp_in, imp_out>>

chanVars == <<chan_in, chan_out>>

linkVars == <<search_data, link_out>>

uploadVars == <<runs, raw>>

gasVars == <<gas_in, gas_out>>

handleVars == <<hdf_run>>

rowVars == <<row_in, row_out>>

sampleVars == <<samples>>

compareVars == <<nan_cmp>>

restVars == <<handleVars, rowVars, sampleVars, compareVars>>

auxVars == <<impVars, chanVars, linkVars, uploadVars, gasVars, restVars>>

vars == <<archiveVars, parseVars, fluxVars, auxVars>>

\* ------------------------------------------------------------------ bounds
MaxCalls == 3
MaxRows == 3
MaxMatches == 2
MaxShutter == 3
MaxAxis == 3
MaxTime == 3

\* ------------------------------------------------------------------ values
None == "None"
NaN == "nan"

upload_id == "upload1"
process_filename == "growth.GrowthMbePDI.archive.yaml"
instrument_filename == "growth.InstrumentMbePDI.archive.yaml"
FileNames == {process_filename, instrument_filename}

Scalars == {"1.0", "2.0", NaN}
Keys == {"a", "b"}

\* A dict is a set of <<key, value>> pairs with distinct keys.
DictKeys(d) == {p[1] : p \in d}
DictGet(d, k) == (CHOOSE p \in d : p[1] = k)[2]
Dicts ==
    {{<<"a", v>>} : v \in Scalars}
        \cup {{<<"a", v>>, <<"b", NaN>>} : v \in {"1.0", NaN}}

\* ------------------------------------------------------------ utils.py
isnan(a) == a = NaN

\* Python's == on floats: NaN is not equal to itself.
PyEq(a, b) == a = b /\ ~isnan(a)

nan_equal_plain(a, b) == PyEq(a, b)

nan_equal(a, b) == PyEq(a, b) \/ (isnan(a) /\ isnan(b))

dict_nan_equal(dict1, dict2) ==
    /\ DictKeys(dict1) = DictKeys(dict2)
    /\ \A key \in DictKeys(dict1) : nan_equal(DictGet(dict1, key), DictGet(dict2, key))

\* yaml.dump / yaml.safe_load on the scalars of a dict: NaN is written ".nan".
yaml_scalar(v) == IF isnan(v) THEN ".nan" ELSE v
yaml_value(t) == IF t = ".nan" THEN NaN ELSE t
yaml_dump(d) == {<<p[1], yaml_scalar(p[2])>> : p \in d}
yaml_safe_load(text) == {<<p[1], yaml_value(p[2])>> : p \in text}

get_entry_id(upload, filename) == <<"hash", upload, filename>>
get_reference(upload, entry_id) == <<"../uploads", upload, "archive", entry_id>>
get_hash_ref(upload, filename) ==
    <<get_reference(upload, get_entry_id(upload, filename)), "#data">>

\* A cell of a dataframe: Absent when the dataframe has no such column, NaN
\* when the cell is blank, a string otherwise. "deg_C" stands for the degree
\* sign followed by C.
Absent == "absent"

\* utils.py 604-610 and 612-617: the unit of a cell that holds a string.
unit_of(code) ==
    IF code = "C" THEN "deg_C"
    ELSE IF code = "sccm" THEN "meter ** 3 / second"
    ELSE code

\* utils.py 600-618. dataframe.get(unit_header) is None without the column, a
\* Series for a DataFrame and the cell itself for a row; a blank cell of a row
\* is a float, which has no attribute `empty`.
handle_unit(dataframe) ==
    LET unit_cell == dataframe.unit
    IN  IF unit_cell = Absent
        THEN [raised |-> None, unit |-> None]
        ELSE IF dataframe.kind = "Series"
        THEN IF unit_cell # NaN
             THEN [raised |-> None, unit |-> unit_of(unit_cell)]
             ELSE [raised |-> "AttributeError", unit |-> None]
        ELSE IF ~dataframe.empty /\ unit_cell # NaN
             THEN [raised |-> None, unit |-> unit_of(unit_cell)]
             ELSE [raised |-> None, unit |-> None]

\* The value a caller holds when create_archive returned None.
NoRef == <<>>

NoFile == [exists |-> FALSE, text |-> {}]
FileOf(d) == [exists |-> TRUE, text |-> yaml_dump(d)]

\* Mutants of create_archive (plausible slips in its branch conditions).
create_archive_clobber(fs, entry_dict, context, filename, overwrite) ==
    IF context = "client"
    THEN [files |-> fs, ret |-> NoRef, wrote |-> FALSE, processed |-> FALSE,
          error |-> FALSE, raised |-> FALSE]
    ELSE [files |-> [fs EXCEPT ![filename] = FileOf(entry_dict)],
          ret |-> get_hash_ref(upload_id, filename), wrote |-> TRUE,
          processed |-> TRUE, error |-> FALSE, raised |-> FALSE]

create_archive_raising(fs, entry_dict, context, filename, overwrite) ==
    LET file_exists == fs[filename].exists
        dicts_are_equal ==
            file_exists /\ dict_nan_equal(yaml_safe_load(fs[filename].text), entry_dict)
    IN  IF context = "client"
        THEN [files |-> fs, ret |-> NoRef, wrote |-> FALSE, processed |-> FALSE,
              error |-> FALSE, raised |-> FALSE]
        ELSE IF ~file_exists \/ overwrite \/ dicts_are_equal
        THEN [files |-> [fs EXCEPT ![filename] = FileOf(entry_dict)],
              ret |-> get_hash_ref(upload_id, filename), wrote |-> TRUE,
              processed |-> TRUE, error |-> FALSE, raised |-> FALSE]
        ELSE [files |-> fs, ret |-> NoRef, wrote |-> FALSE, processed |-> FALSE,
              error |-> TRUE, raised |-> TRUE]

create_archive_skip_equal(fs, entry_dict, context, filename, overwrite) ==
    LET file_exists == fs[filename].exists
        dicts_are_equal ==
            file_exists /\ dict_nan_equal(yaml_safe_load(fs[filename].text), entry_dict)
    IN  IF context = "client"
        THEN [files |-> fs, ret |-> NoRef, wrote |-> FALSE, processed |-> FALSE,
              error |-> FALSE, raised |-> FALSE]
        ELSE IF ~file_exists \/ overwrite
        THEN [files |-> [fs EXCEPT ![filename] = FileOf(entry_dict)],
              ret |-> get_hash_ref(upload_id, filename), wrote |-> TRUE,
              processed |-> TRUE, error |-> FALSE, raised |-> FALSE]
        ELSE [files |-> fs, ret |-> get_hash_ref(upload_id, filename),
              wrote |-> FALSE, processed |-> FALSE,
              error |-> ~dicts_are_equal, raised |-> FALSE]

\* create_archive: the outcome of one call on the raw files fs.
\*   files     the raw files after the call
\*   ret       the value returned to the caller
\*   wrote     the destination was opened for writing and dumped
\*   processed process_updated_raw_file was called on the destination
\*   error     logger.error was called
\*   raised    an exception left the function
create_archive(fs, entry_dict, context, filename, overwrite) ==
    LET file_exists == fs[filename].exists
        dicts_are_equal ==
            file_exists /\ dict_nan_equal(yaml_safe_load(fs[filename].text), entry_dict)
    IN  IF context = "client"
        THEN [files |-> fs, ret |-> NoRef, wrote |-> FALSE, processed |-> FALSE,
              error |-> FALSE, raised |-> FALSE]
        ELSE IF ~file_exists \/ overwrite \/ dicts_are_equal
        THEN [files |-> [fs EXCEPT ![filename] = FileOf(entry_dict)],
              ret |-> get_hash_ref(upload_id, filename), wrote |-> TRUE,
              processed |-> TRUE, error |-> FALSE, raised |-> FALSE]
        ELSE [files |-> fs, ret |-> get_hash_ref(upload_id, filename),
              wrote |-> FALSE, processed |-> FALSE, error |-> TRUE, raised |-> FALSE]

\* ------------------------------------------------- create_archive calls
NoCall ==
    [made |-> FALSE, filename |-> process_filename, dict |-> {}, context |-> "server",
     overwrite |-> FALSE, before |-> NoFile, ret |-> NoRef, wrote |-> FALSE,
     processed |-> FALSE, error |-> FALSE, raised |-> FALSE]

CallRecord(fs, entry_dict, context, filename, overwrite, res) ==
    [made |-> TRUE, filename |-> filename, dict |-> entry_dict, context |-> context,
     overwrite |-> overwrite, before |-> fs[filename], ret |-> res.ret,
     wrote |-> res.wrote, processed |-> res.processed, error |-> res.error,
     raised |-> res.raised]

\* One call of create_archive by any caller, with its bookkeeping.
DoCreateArchive(entry_dict, context, filename, overwrite) ==
    LET res == create_archive(files, entry_dict, context, filename, overwrite)
    IN  /\ files' = res.files
        /\ processed' = IF res.processed THEN processed \cup {filename} ELSE processed
        /\ first' = IF context = "server" /\ ~first[filename].set
                    THEN [first EXCEPT ![filename] = [set |-> TRUE, dict |-> entry_dict]]
                    ELSE first
        /\ overwritten' = IF overwrite THEN overwritten \cup {filename} ELSE overwritten
        /\ prev' = last
        /\ last' = CallRecord(files, entry_dict, context, filename, overwrite, res)
        /\ callOf' = [callOf EXCEPT
                ![filename] = CallRecord(files, entry_dict, context, filename, overwrite, res)]

CallCreateArchive ==
    /\ ncalls < MaxCalls
    /\ \E entry_dict \in Dicts, context \in {"server", "client"},
          filename \in FileNames, overwrite \in BOOLEAN :
            DoCreateArchive(entry_dict, context, filename, overwrite)
    /\ ncalls' = ncalls + 1
    /\ UNCHANGED <<parseVars, fluxVars, auxVars>>

ArchiveInit ==
    /\ processed = {}
    /\ first = [n \in FileNames |-> [set |-> FALSE, dict |-> {}]]
    /\ overwritten = {}
    /\ prev = NoCall
    /\ last = NoCall
    /\ callOf = [n \in FileNames |-> NoCall]
    /\ ncalls = 0

ParseReset ==
    /\ err = None
    /\ sheets = "unread"
    /\ messages_cell = "unread"
    /\ growth_starttime = "unset"
    /\ fitting = "unset"
    /\ shutters = "unset"
    /\ container = [created |-> FALSE, epoch |-> "unset", groups |-> {}]
    /\ sheet = <<>>
    /\ sources = <<>>
    /\ port_list = <<>>
    /\ source_object = [state |-> "unbound", at |-> 0]
    /\ temp_mv_time = [set |-> FALSE, row |-> 0]
    /\ link_called = FALSE
    /\ exp_patched = FALSE

ParseIdle ==
    /\ pc = "idle"
    /\ ParseReset

FluxReset ==
    /\ shutter_trace = <<>>
    /\ time_vector = <<>>
    /\ shutter_vector = <<>>

FluxIdle ==
    /\ fpc = "idle"
    /\ FluxReset

\* The variables of the other specifications, when they are not in use.
Idle == [state |-> "idle"]

ImpIdle == imp_in = Idle /\ imp_out = Idle

ChanIdle == chan_in = Idle /\ chan_out = Idle

LinkIdle == search_data = <<>> /\ link_out = Idle

UploadIdle == runs = <<>> /\ raw = Idle

GasIdle == gas_in = Idle /\ gas_out = Idle

HandleIdle == hdf_run = Idle

RowIdle == row_in = Idle /\ row_out = Idle

SampleIdle == samples = Idle

CompareIdle == nan_cmp = Idle

RestIdle == HandleIdle /\ RowIdle /\ SampleIdle /\ CompareIdle

InitArchive ==
    /\ ArchiveInit
    /\ files = [n \in FileNames |-> NoFile]
    /\ ParseIdle
    /\ FluxIdle
    /\ ImpIdle /\ ChanIdle /\ LinkIdle /\ UploadIdle /\ GasIdle /\ RestIdle

NextArchive == CallCreateArchive

SpecArchive == InitArchive /\ [][NextArchive]_vars

\* ------------------------------------------------------------- C1 .. C3
\* The last call was made on a server context without the overwrite flag on a
\* destination that held different content.
Conflicting(c) ==
    /\ c.made /\ c.context = "server" /\ ~c.overwrite
    /\ c.before.exists
    /\ ~dict_nan_equal(yaml_safe_load(c.before.text), c.dict)

\* C1: without an overwrite call on a name, the content stored under it stays
\* (NaN-aware) equal to the content of the first server call that created it.
C1_FirstContentKept ==
    \A n \in FileNames :
        (first[n].set /\ n \notin overwritten) =>
            /\ files[n].exists
            /\ dict_nan_equal(yaml_safe_load(files[n].text), first[n].dict)

\* C1 witness: a later call offered different content for an existing name.
C1_Witness ==
    /\ Conflicting(last)
    /\ last.filename \notin overwritten
    /\ ~dict_nan_equal(first[last.filename].dict, last.dict)

Repeated ==
    /\ prev.made /\ last.made
    /\ prev.context = "server" /\ last.context = "server"
    /\ prev.filename = last.filename
    /\ prev.dict = last.dict

\* C3 as stated: the second of two identical calls returns the same reference
\* and neither writes the destination nor triggers its reprocessing.
C3_SecondCallNoWrite ==
    Repeated => (last.ret = prev.ret /\ ~last.wrote /\ ~last.processed)

\* C3 amended: the second of two identical calls returns the same reference; when
\* the destination holds equal content the call writes that content again and
\* triggers reprocessing, leaving the stored content as it was.
C3_SecondCallRewritesEqual ==
    Repeated =>
        /\ last.ret = prev.ret
        /\ (last.before.exists
              /\ dict_nan_equal(yaml_safe_load(last.before.text), last.dict)) =>
                /\ last.wrote /\ last.processed
                /\ files[last.filename] = last.before

C3_Witness ==
    /\ Repeated /\ prev.wrote /\ ~last.overwrite
    /\ last.before.exists /\ last.wrote
    /\ \E p \in last.dict : isnan(p[2])

\* ------------------------------------------- ParserEpicPDI.parse: inputs
\* A cold lip cell (CLC) row takes the branches of an SFC row (parser.py
\* 392-438) and is represented by it.
SourceTypes == {"PLASMA", "SFC", "DFC"}
RowTypes == SourceTypes \cup {"SUB"}

\* The EPIC_loop cell of a row: a blank cell is read as NaN, which is truthy.
Loops == {NaN, "L1"}

\* The loops that have a block in the calibration file when it is read.
Calibrated == {"L1"}

\* The channels of a row (f_power, r_power, temp_mv, temp_wop, hl_temp_mv and
\* their unit cells): every filename cell names a dataset of the container and
\* no unit cell is blank ("ok"), a filename cell is blank ("blank"), a named
\* dataset is not in the container ("nodataset"), or a unit cell is blank
\* ("blank_unit").
Channels == {"ok", "blank", "nodataset", "blank_unit"}

Rows == [source_type : RowTypes, EPIC_loop : Loops, channels : Channels]

\* parser.py 320-342, 425-438, 450-464, 619-646: what reading the channels of a
\* row raises. fn2dfn (a dependency) raises on a blank cell or returns a name
\* that is not in the container; hdf[name] raises KeyError for a missing
\* dataset; handle_unit raises AttributeError on the blank unit cell of a row.
channel_error(channels, fn2dfn_raises) ==
    IF channels = "ok" THEN None
    ELSE IF channels = "blank_unit" THEN handle_unit(
            [kind |-> "Series", empty |-> FALSE, data |-> "T1", unit |-> NaN]).raised
    ELSE IF channels = "blank" /\ fn2dfn_raises THEN "Fn2dfnError"
    ELSE "KeyError"

\* child_archives[...].m_to_dict() of the run, and of an earlier processing of a
\* different revision of the same mainfile.
ProcessDict == {<<"kind", "GrowthMbePDI">>, <<"rev", "new">>}
InstrumentDict == {<<"kind", "InstrumentMbePDI">>, <<"rev", "new">>}
OlderDict(d) == {IF p[1] = "rev" THEN <<"rev", "old">> ELSE p : p \in d}

\* parser.py 425: temp_mv_time is unassigned, or names the temperature time
\* dataset of the row that assigned it.
NoAxis == [set |-> FALSE, row |-> 0]

AxisOf(i) == [set |-> TRUE, row |-> i]

\* parser.py 313-315, 413-416: the vapor_source of a PLASMA source is an
\* RfGeneratorHeater, which is given no temperature; the one of a cell is an
\* EffusionCellHeater with a temperature.
has_temperature_any(type) == TRUE

has_temperature(type) == type # "PLASMA"

NewSource(i, type) ==
    [row |-> i, type |-> type, recv |-> {}, epic_loop |-> None, flux |-> FALSE,
     flux_time |-> NoAxis,
     named |-> FALSE, port |-> [set |-> FALSE, index |-> 0]]

\* ------------------------------------------------ parse: the straight part
Fail(e) ==
    /\ pc' = "failed"
    /\ err' = e

\* parser.py 116-149: every sheet of the list is read; a missing one raises.
ReadSheets ==
    /\ pc = "start"
    /\ \E present \in BOOLEAN :
        /\ sheets' = IF present THEN "ok" ELSE "missing"
        /\ IF present
           THEN pc' = "messages" /\ err' = err
           ELSE Fail("ValueError")
    /\ UNCHANGED <<archiveVars, fluxVars, auxVars, messages_cell, growth_starttime, fitting, shutters,
                   container, sheet, sources, port_list, source_object, temp_mv_time, link_called,
                   exp_patched>>

\* parser.py 153-158: the two asserts on the messages cell.
messages_assert_lax(cell) == cell \in {"file", "blank"}

messages_assert(cell) == cell = "file"

\* parser.py 159-167: what parse does with the result of extract_growth_messages
\* (a dependency: it finds the growth start, finds none, or raises).
after_extract_strict(outcome) ==
    IF outcome = "found"
    THEN [pc |-> "fitting", err |-> None, epoch |-> "t0"]
    ELSE IF outcome = "none"
    THEN [pc |-> "failed", err |-> "GrowthWindowNotFoundError", epoch |-> None]
    ELSE [pc |-> "failed", err |-> "ExtractError", epoch |-> "unset"]

after_extract(outcome) ==
    IF outcome = "found"
    THEN [pc |-> "fitting", err |-> None, epoch |-> "t0"]
    ELSE IF outcome = "none"
    THEN [pc |-> "fitting", err |-> None, epoch |-> None]
    ELSE [pc |-> "failed", err |-> "ExtractError", epoch |-> "unset"]

CheckMessages ==
    /\ pc = "messages"
    /\ \E cell \in {"nocolumn", "empty", "blank", "file"},
          outcome \in {"found", "none", "raises"} :
        /\ messages_cell' = cell
        /\ IF messages_assert(cell)
           THEN LET r == after_extract(outcome)
                IN  /\ pc' = r.pc
                    /\ err' = r.err
                    /\ growth_starttime' = r.epoch
           ELSE /\ Fail("AssertionError")
                /\ growth_starttime' = growth_starttime
    /\ UNCHANGED <<archiveVars, fluxVars, auxVars, sheets, fitting, shutters, container, sheet, sources,
                   port_list, source_object, temp_mv_time, link_called, exp_patched>>

\* parser.py 170-190: the calibration file, when named and present, is parsed into
\* a dict; a block that is not four key=value lines raises.
ReadFitting ==
    /\ pc = "fitting"
    /\ \E f \in {"absent", "wellformed", "malformed"} :
        IF f = "malformed"
        THEN Fail("ValueError") /\ fitting' = fitting
        ELSE /\ fitting' = IF f = "absent" THEN None ELSE "dict"
             /\ pc' = "shutters"
             /\ err' = err
    /\ UNCHANGED <<archiveVars, fluxVars, auxVars, sheets, messages_cell, growth_starttime, shutters,
                   container, sheet, sources, port_list, source_object, temp_mv_time, link_called,
                   exp_patched>>

\* parser.py 193-207: the shutter file, when named and present, is aligned to
\* growth_starttime. With growth_starttime None the subtraction is left to pandas:
\* it raises TypeError or yields missing values, whichever the installed version does.
ReadShutters ==
    /\ pc = "shutters"
    /\ \E present \in BOOLEAN, pandas_raises \in BOOLEAN :
        IF ~present
        THEN shutters' = None /\ pc' = "hdf" /\ err' = err
        ELSE IF growth_starttime # None
        THEN shutters' = "aligned" /\ pc' = "hdf" /\ err' = err
        ELSE IF pandas_raises
        THEN shutters' = shutters /\ Fail("TypeError")
        ELSE shutters' = "aligned_to_none" /\ pc' = "hdf" /\ err' = err
    /\ UNCHANGED <<archiveVars, fluxVars, auxVars, sheets, messages_cell, growth_starttime, fitting,
                   container, sheet, sources, port_list, source_object, temp_mv_time, link_called,
                   exp_patched>>

\* parser.py 212: raw_file(hdf_filename, "w") creates or truncates the container.
hdf_open_w(c, epoch) == [created |-> TRUE, epoch |-> epoch, groups |-> {}]

\* parser.py 209-214: the logs are read, the container is opened for writing and
\* the exporter is run with growth_starttime. Reading the logs may raise before
\* the file is opened; the exporter may raise after.
CreateHdf ==
    /\ pc = "hdf"
    /\ \E read_ok \in BOOLEAN, export_ok \in BOOLEAN :
        IF ~read_ok
        THEN Fail("LogReadError") /\ container' = container
        ELSE /\ container' = hdf_open_w(container, growth_starttime)
             /\ IF export_ok
                THEN pc' = "units" /\ err' = err
                ELSE Fail("ExportError")
    /\ UNCHANGED <<archiveVars, fluxVars, auxVars, sheets, messages_cell, growth_starttime, fitting,
                   shutters, sheet, sources, port_list, source_object, temp_mv_time, link_called,
                   exp_patched>>

\* parser.py 216-301: the archive objects are instantiated and the units of the
\* pyrometry and chamber datasets are set; a dataset missing from the container
\* raises KeyError.
EnvUnits ==
    /\ pc = "units"
    /\ \E datasets_ok \in BOOLEAN :
        IF datasets_ok
        THEN pc' = "rows" /\ err' = err
        ELSE Fail("KeyError")
    /\ UNCHANGED <<archiveVars, fluxVars, auxVars, sheets, messages_cell, growth_starttime, fitting,
                   shutters, container, sheet, sources, port_list, source_object, temp_mv_time,
                   link_called, exp_patched>>

\* ------------------------------------------------ parse: the sources loop
\* The state one iteration of the loop works on; err is the exception raised.
RowState(srcs, ports, cont, so, axis) ==
    [err |-> None, sources |-> srcs, port_list |-> ports, container |-> cont,
     source_object |-> so, temp_mv_time |-> axis]

Bound(at) == [state |-> "bound", at |-> at]
Unbound == [state |-> "unbound", at |-> 0]
NoObject == [state |-> "none", at |-> 0]

\* parser.py 305-464: a PLASMA, SFC, DFC or CLC row appends a Source, binds
\* source_object to sources[sources_index] (sources_index is the row label of
\* iterrows) and sets the units of the row's datasets in the container.
StageAppend(st, row, sources_index, cherr) ==
    IF row.source_type \notin SourceTypes
    THEN st
    ELSE LET s1 == Append(st.sources, NewSource(sources_index, row.source_type))
         IN  IF sources_index >= Len(s1)
             THEN [st EXCEPT !.sources = s1, !.err = "IndexError"]
             ELSE LET at == sources_index + 1
                      s2 == [s1 EXCEPT ![at].recv = @ \cup {sources_index}]
                  IN  [st EXCEPT !.sources = s2,
                                 !.source_object = Bound(at),
                                 !.temp_mv_time = IF row.source_type = "PLASMA"
                                                  THEN @ ELSE AxisOf(sources_index),
                                 !.err = cherr]

\* parser.py 466-542: with a calibration dict, a non-SUB row records its
\* EPIC_loop; when the loop is calibrated the flux is computed from
\* vapor_source.temperature (which the RF generator of a PLASMA source does not
\* have) and stored in a new group named after the loop. The unit literal of
\* line 476 is resolved by the unit registry or raises.
StageFlux(st, row, fit, unit_ok) ==
    IF st.err # None \/ fit # "dict" \/ row.source_type = "SUB"
    THEN st
    ELSE LET at == st.source_object.at
             s1 == [st.sources EXCEPT ![at].epic_loop = row.EPIC_loop]
         IN  IF row.EPIC_loop \notin Calibrated
             THEN [st EXCEPT !.sources = s1]
             ELSE IF ~unit_ok
             THEN [st EXCEPT !.sources = s1, !.err = "UndefinedUnitError"]
             ELSE IF ~has_temperature(row.source_type)
             THEN [st EXCEPT !.sources = s1, !.err = "AttributeError"]
             ELSE IF row.EPIC_loop \in st.container.groups
             THEN [st EXCEPT !.sources = s1, !.err = "ValueError"]
             ELSE [st EXCEPT
                      !.sources = [s1 EXCEPT ![at].flux = TRUE,
                                             ![at].flux_time = st.temp_mv_time],
                      !.container.groups = @ \cup {row.EPIC_loop}]

\* parser.py 591: the index written into the port reference of a Source.
port_ref_len(sources_index, ports) == Len(ports)

port_ref(sources_index, ports) == sources_index

\* parser.py 546-602: when source_object is set the row's name is given to it,
\* a Port is appended to the instrument and referenced from the Source.
StageCommon(st, row, sources_index) ==
    IF st.err # None
    THEN st
    ELSE IF st.source_object.state = "unbound"
    THEN [st EXCEPT !.err = "UnboundLocalError"]
    ELSE IF st.source_object.state = "none"
    THEN st
    ELSE LET at == st.source_object.at
             ports == Append(st.port_list, [row |-> sources_index])
         IN  [st EXCEPT
                 !.port_list = ports,
                 !.sources = [@ EXCEPT
                     ![at].named = TRUE,
                     ![at].port = [set |-> TRUE,
                                   index |-> port_ref(sources_index, ports)]]]

\* parser.py 605-679: a SUB row fills the sample parameters, sets the units of
\* its datasets and links the pyrometer and substrate datasets under
\* /pyro_vs_subtemp, which must not exist yet.
StageSub(st, row, cherr) ==
    IF st.err # None \/ row.source_type # "SUB"
    THEN st
    ELSE IF cherr # None
    THEN [st EXCEPT !.err = cherr]
    ELSE IF "pyro_vs_subtemp" \in st.container.groups
    THEN [st EXCEPT !.err = "LinkExistsError"]
    ELSE [st EXCEPT !.container.groups = @ \cup {"pyro_vs_subtemp"}]

\* One iteration of `for sources_index, sources_row in sources_sheet.iterrows()`.
RowOutcome(st, row, sources_index, cherr, fit, unit_ok) ==
    StageSub(
        StageCommon(
            StageFlux(StageAppend(st, row, sources_index, cherr), row, fit, unit_ok),
            row, sources_index),
        row, cherr)

ProcessRow ==
    /\ pc = "rows"
    /\ Len(sheet) < MaxRows
    /\ \E row \in Rows :
       \E fn2dfn_raises \in IF row.channels = "blank" THEN BOOLEAN ELSE {FALSE},
          unit_ok \in IF fitting = "dict" /\ row.EPIC_loop \in Calibrated
                      THEN BOOLEAN ELSE {TRUE} :
        LET st == RowOutcome(RowState(sources, port_list, container, source_object,
                                      temp_mv_time),
                             row, Len(sheet), channel_error(row.channels, fn2dfn_raises),
                             fitting, unit_ok)
        IN  /\ sheet' = Append(sheet, row)
            /\ sources' = st.sources
            /\ port_list' = st.port_list
            /\ container' = st.container
            /\ temp_mv_time' = st.temp_mv_time
            /\ IF st.err = None
               THEN pc' = "rows" /\ err' = err /\ source_object' = NoObject
               ELSE Fail(st.err) /\ source_object' = st.source_object
    /\ UNCHANGED <<archiveVars, fluxVars, auxVars, sheets, messages_cell, growth_starttime, fitting,
                   shutters, link_called, exp_patched>>

\* The sheet has no further row.
EndRows ==
    /\ pc = "rows"
    /\ pc' = "process"
    /\ UNCHANGED <<archiveVars, fluxVars, auxVars, err, sheets, messages_cell, growth_starttime, fitting,
                   shutters, container, sheet, sources, port_list, source_object, temp_mv_time,
                   link_called, exp_patched>>

\* ------------------------------------------------ parse: the persisting part
\* parser.py 683-689
CreateProcess ==
    /\ pc = "process"
    /\ DoCreateArchive(ProcessDict, "server", process_filename, FALSE)
    /\ IF last'.raised
       THEN Fail("ConflictingArtifactError")
       ELSE pc' = "instrument" /\ err' = err
    /\ UNCHANGED <<ncalls, fluxVars, auxVars, sheets, messages_cell, growth_starttime, fitting, shutters,
                   container, sheet, sources, port_list, source_object, temp_mv_time, link_called,
                   exp_patched>>

\* parser.py 691-697
CreateInstrument ==
    /\ pc = "instrument"
    /\ DoCreateArchive(InstrumentDict, "server", instrument_filename, FALSE)
    /\ IF last'.raised
       THEN Fail("ConflictingArtifactError")
       ELSE pc' = "link" /\ err' = err
    /\ UNCHANGED <<ncalls, fluxVars, auxVars, sheets, messages_cell, growth_starttime, fitting, shutters,
                   container, sheet, sources, port_list, source_object, temp_mv_time, link_called,
                   exp_patched>>

\* utils.py 356-418: the experiment mainfile is rewritten only when the search
\* returns exactly one entry; opening the upload of that entry and reading its
\* mainfile may raise.
link_experiment_first(matches, io_ok) ==
    [patched |-> matches >= 1 /\ io_ok,
     warned |-> matches = 0,
     error |-> FALSE,
     raised |-> matches >= 1 /\ ~io_ok]

link_experiment(matches, io_ok) ==
    [patched |-> matches = 1 /\ io_ok,
     warned |-> matches = 0,
     error |-> matches > 1,
     raised |-> matches = 1 /\ ~io_ok]

\* parser.py 721-729
LinkExperiment ==
    /\ pc = "link"
    /\ \E matches \in 0..MaxMatches, io_ok \in BOOLEAN :
        LET r == link_experiment(matches, io_ok)
        IN  /\ exp_patched' = r.patched
            /\ IF r.raised
               THEN Fail("LinkError")
               ELSE pc' = "done" /\ err' = err
    /\ link_called' = TRUE
    /\ UNCHANGED <<archiveVars, fluxVars, auxVars, sheets, messages_cell, growth_starttime, fitting,
                   shutters, container, sheet, sources, port_list, source_object, temp_mv_time>>

\* One processing of a mainfile; the archives of the run may exist from an
\* earlier processing, with the content of this run or with another content.
ExistingFiles(d) == {NoFile, FileOf(d), FileOf(OlderDict(d))}

Init ==
    /\ ArchiveInit
    /\ files \in {[n \in FileNames |-> IF n = process_filename THEN p ELSE i] :
                    p \in ExistingFiles(ProcessDict), i \in ExistingFiles(InstrumentDict)}
    /\ pc = "start"
    /\ ParseReset
    /\ FluxIdle
    /\ ImpIdle /\ ChanIdle /\ LinkIdle /\ UploadIdle /\ GasIdle /\ RestIdle

Next ==
    \/ ReadSheets
    \/ CheckMessages
    \/ ReadFitting
    \/ ReadShutters
    \/ CreateHdf
    \/ EnvUnits
    \/ ProcessRow
    \/ EndRows
    \/ CreateProcess
    \/ CreateInstrument
    \/ LinkExperiment

Spec == Init /\ [][Next]_vars

\* ------------------------------------------------------------- C4 .. C9
ProcessCall == callOf[process_filename]
InstrumentCall == callOf[instrument_filename]

\* Nothing of the run exists: no container, no archive call, no patched record.
NoSideEffect ==
    /\ ~container.created
    /\ ~ProcessCall.made /\ ~InstrumentCall.made
    /\ processed = {}
    /\ ~link_called /\ ~exp_patched

C5_PreconditionAbortsClean ==
    (sheets = "missing" \/ messages_cell \in {"nocolumn", "empty", "blank"}) =>
        /\ pc = "failed"
        /\ err \in {"ValueError", "AssertionError"}
        /\ NoSideEffect

C5_Witness ==
    /\ pc = "failed"
    /\ messages_cell = "blank"
    /\ files[process_filename].exists

Complete ==
    /\ container.created
    /\ files[process_filename].exists
    /\ files[instrument_filename].exists
    /\ link_called

\* C7 as stated: a run ends with the complete set of artifacts or with none.
C7_AllOrNothing ==
    pc \in {"done", "failed"} => (Complete \/ NoSideEffect)

\* The exceptions raised before the container is opened for writing.
EarlyStep(e) == e \in {"AssertionError", "ExtractError", "TypeError", "LogReadError"}

\* The exceptions raised in the export, the unit step and the sources loop.
MidStep(e) ==
    e \in {"ExportError", "KeyError", "IndexError", "AttributeError", "ValueError",
           "Fn2dfnError", "UndefinedUnitError", "UnboundLocalError", "LinkExistsError"}

\* C7 amended: a run that ends normally has the complete set; a run that fails
\* before the container is opened leaves nothing behind; a run that fails in the
\* export, the unit step or the sources loop leaves the container behind, with
\* no archive written and no link step; a run that fails in the link step
\* leaves the container and both archives behind.
C7_CompleteOrContainerOnly ==
    /\ pc = "done" => Complete /\ ProcessCall.made /\ InstrumentCall.made
    /\ pc = "failed" =>
        /\ EarlyStep(err) \/ (err = "ValueError" /\ ~container.created) => NoSideEffect
        /\ (MidStep(err) /\ container.created) =>
              /\ ~ProcessCall.made /\ ~InstrumentCall.made
              /\ processed = {}
              /\ ~link_called /\ ~exp_patched
        /\ err = "LinkError" =>
              /\ container.created
              /\ ProcessCall.made /\ InstrumentCall.made
              /\ link_called /\ ~exp_patched
        /\ EarlyStep(err) \/ MidStep(err) \/ err = "LinkError"

C7_Witness ==
    /\ pc = "failed"
    /\ container.created
    /\ Len(sources) > 0
    /\ ~files[process_filename].exists

\* C8: every appended Source has received the data of the row it was appended
\* for, and of no other row.
C8_SourceGetsOwnRow ==
    \A k \in DOMAIN sources : sources[k].recv = {sources[k].row}

C14_BadChannelSkipsField ==
    (\E i \in DOMAIN sheet : sheet[i].channels \in {"blank", "nodataset"}) =>
        ~(pc = "failed" /\ err \in {"KeyError", "Fn2dfnError"})

\* ------------------------------------------------------- flux calculator
Times == 0..MaxTime

ShutterRows == [TimeDifference : Times, value : {0, 1}]

SeqsUpTo(S, n) == UNION {[1..m -> S] : m \in 0..n}

\* The shutter log and the temperature log are written in the order of time.
OrderedTraces ==
    {s \in SeqsUpTo(ShutterRows, MaxShutter) :
        \A i, j \in DOMAIN s : i < j => s[i].TimeDifference <= s[j].TimeDifference}

OrderedAxes ==
    {s \in SeqsUpTo(Times, MaxAxis) : \A i, j \in DOMAIN s : i < j => s[i] <= s[j]}

\* utils.py 809-812 / parser.py 511-514: the first index whose time has reached
\* the shutter change (0: the inner loop ends without a break).
shutter_change_index_strict(tv, shutter_change_time) ==
    LET reached == {i \in DOMAIN tv : tv[i] > shutter_change_time}
    IN  IF reached = {} THEN 0 ELSE CHOOSE i \in reached : \A j \in reached : i <= j

shutter_change_index(tv, shutter_change_time) ==
    LET reached == {i \in DOMAIN tv : tv[i] >= shutter_change_time}
    IN  IF reached = {} THEN 0 ELSE CHOOSE i \in reached : \A j \in reached : i <= j

\* shutter_vector[i:] = shutter_value
AssignFrom(vec, i, shutter_value) ==
    IF i = 0 THEN vec ELSE [j \in DOMAIN vec |-> IF j >= i THEN shutter_value ELSE vec[j]]

\* utils.py 804-812 / parser.py 504-514: the loop over shutters.iterrows().
RECURSIVE IterShutters(_, _, _, _)
IterShutters(vec, tv, rows, k) ==
    IF k > Len(rows)
    THEN vec
    ELSE IterShutters(
            AssignFrom(vec, shutter_change_index(tv, rows[k].TimeDifference), rows[k].value),
            tv, rows, k + 1)

\* utils.py 801-812 / parser.py 501-514 with a shutters table: np.zeros, then
\* the loop over the rows.
modulation_vector(tv, rows) == IterShutters([j \in DOMAIN tv |-> 0], tv, rows, 1)

ComputeModulation ==
    /\ fpc = "ready"
    /\ shutter_vector' = modulation_vector(time_vector, shutter_trace)
    /\ fpc' = "done"
    /\ UNCHANGED <<archiveVars, parseVars, auxVars, shutter_trace, time_vector>>

InitFlux ==
    /\ ArchiveInit
    /\ files = [n \in FileNames |-> NoFile]
    /\ ParseIdle
    /\ shutter_trace \in OrderedTraces
    /\ time_vector \in OrderedAxes
    /\ shutter_vector = <<>>
    /\ fpc = "ready"
    /\ ImpIdle /\ ChanIdle /\ LinkIdle /\ UploadIdle /\ GasIdle /\ RestIdle

NextFlux == ComputeModulation

SpecFlux == InitFlux /\ [][NextFlux]_vars

\* ------------------------------------------------------------------ C10
\* The value of the latest shutter sample at or before time t, 0 when none is.
StepHold(rows, t) ==
    LET at_or_before == {k \in DOMAIN rows : rows[k].TimeDifference <= t}
    IN  IF at_or_before = {}
        THEN 0
        ELSE rows[CHOOSE k \in at_or_before : \A m \in at_or_before : m <= k].value

\* C10: for an ordered shutter trace and a non-decreasing time axis the
\* modulation vector has the length of the axis and holds, at every sample, the
\* latest shutter value at or before the sample time (0 before the first one);
\* shutter [(0,0),(10,1),(20,0)] on the axis [5,10,15,25] gives [0,1,1,0].
C10_StepHold ==
    /\ fpc = "done" =>
        /\ Len(shutter_vector) = Len(time_vector)
        /\ \A j \in DOMAIN time_vector :
              shutter_vector[j] = StepHold(shutter_trace, time_vector[j])
    /\ modulation_vector(<<5, 10, 15, 25>>,
            <<[TimeDifference |-> 0, value |-> 0], [TimeDifference |-> 10, value |-> 1],
              [TimeDifference |-> 20, value |-> 0]>>) = <<0, 1, 1, 0>>

C10_Witness ==
    /\ fpc = "done"
    /\ shutter_trace = <<[TimeDifference |-> 1, value |-> 1],
                         [TimeDifference |-> 3, value |-> 0]>>
    /\ time_vector = <<0, 2, 3>>
    /\ shutter_vector = <<0, 1, 0>>

\* ------------------------------------------------------- impinging flux
MaxSamples == 2
MaxChanges == 2

\* The blocks of the calibration file: EPIC_loop -> Coeff "a,t0" and BEPtoFlux.
\* Temperatures are counted in hundredths of a degree.
CoeffA == {0, 1}
CoeffT0 == {0 - 27315, 0}
BepToFlux == {1, 2}
CelsiusValues == {0, 10000}
FluxLoops == {"L1", "L2"}

\* pint: Quantity(x, degC).to("kelvin").magnitude
to_kelvin(celsius) == celsius + 27315

RECURSIVE gcd(_, _)
gcd(a, b) == IF b = 0 THEN a ELSE gcd(b, a % b)

\* The real number bep * exp(e), e a fraction in lowest terms; two such numbers
\* are equal exactly when their records are.
Number(bep) == [bep |-> bep, e |-> <<0, 1>>]

\* bep * np.exp(a) * np.exp(n / d), with n >= 0 and d > 0.
exp_product(bep, a, n, d) ==
    LET g == gcd(n, d)
    IN  [bep |-> bep, e |-> <<a * (d \div g) + (n \div g), d \div g>>]

\* x * s for a shutter value s of 0 or 1.
times_ungated(x, s) == x

times(x, s) == IF s = 0 THEN Number(0) ELSE x

np_zeros(n) == [j \in 1..n |-> 0]
np_ones(n) == [j \in 1..n |-> 1]

\* utils.py 791-798 / parser.py 488-495: the flux at every temperature sample.
impinging_flux(bep_to_flux, a_param, t0_param, temperature) ==
    [j \in DOMAIN temperature |->
        exp_product(bep_to_flux, a_param, to_kelvin(t0_param), to_kelvin(temperature[j]))]

\* utils.py 817 / parser.py 516: impinging_flux * shutter_vector
modulated(flux, sv) == [j \in DOMAIN flux |-> times(flux[j], sv[j])]

NotRun == [ran |-> FALSE]

FluxRaised(e, log) ==
    [ran |-> TRUE, raised |-> e, computed |-> FALSE, impinging_flux |-> <<>>,
     shutter_vector |-> <<>>, modulated_flux |-> <<>>, written |-> FALSE, log |-> log]

FluxSkipped(log) ==
    [ran |-> TRUE, raised |-> None, computed |-> FALSE, impinging_flux |-> <<>>,
     shutter_vector |-> <<>>, modulated_flux |-> <<>>, written |-> FALSE, log |-> log]

FluxComputed(flux, sv, written, log) ==
    [ran |-> TRUE, raised |-> None, computed |-> TRUE, impinging_flux |-> flux,
     shutter_vector |-> sv, modulated_flux |-> modulated(flux, sv),
     written |-> written, log |-> log]

\* parser.py 466-542 for an effusion cell row with a calibration dict: the unit
\* literal of lines 476 and 486 is handed to the unit registry, which resolves
\* it or raises; without a shutters table the vector stays np.zeros and nothing
\* is logged; the modulated flux is written to the container.
inline_flux(in, unit_ok) ==
    IF in.EPIC_loop \notin Calibrated
    THEN FluxSkipped({})
    ELSE IF ~unit_ok
    THEN FluxRaised("UndefinedUnitError", {})
    ELSE LET flux == impinging_flux(in.bep_to_flux, in.a_param, in.t0_param,
                                    in.temperature)
             sv == IF in.has_shutters
                   THEN modulation_vector(in.time_vector, in.shutters)
                   ELSE np_zeros(Len(in.time_vector))
         IN  FluxComputed(flux, sv, TRUE, {})

\* utils.py 779-820: without a shutters table the vector is np.ones and an
\* error is logged; for a loop without a calibration block the return statement
\* reads a_param, which was never assigned. The caller does the writing.
calculate_impinging_flux(in) ==
    IF in.EPIC_loop \notin Calibrated
    THEN FluxRaised("UnboundLocalError", {})
    ELSE LET flux == impinging_flux(in.bep_to_flux, in.a_param, in.t0_param,
                                    in.temperature)
         IN  IF in.has_shutters
             THEN FluxComputed(flux, modulation_vector(in.time_vector, in.shutters),
                               FALSE, {})
             ELSE FluxComputed(flux, np_ones(Len(in.time_vector)), FALSE, {"error"})

\* The relative times of the temperature samples and of the shutter changes.
FluxTimes == 0..2

FluxTraces ==
    {s \in SeqsUpTo([TimeDifference : FluxTimes, value : {0, 1}], MaxChanges) :
        \A i, j \in DOMAIN s : i < j => s[i].TimeDifference <= s[j].TimeDifference}

\* The temperature log of a source: its time axis and its values.
FluxSeries ==
    {[time_vector |-> t, temperature |-> v] :
        t \in {s \in SeqsUpTo(FluxTimes, MaxSamples) :
                  \A i, j \in DOMAIN s : i < j => s[i] <= s[j]},
        v \in SeqsUpTo(CelsiusValues, MaxSamples)}

FluxInputs ==
    {[EPIC_loop |-> l, a_param |-> a, t0_param |-> t0, bep_to_flux |-> k,
      time_vector |-> ser.time_vector, temperature |-> ser.temperature,
      has_shutters |-> h, shutters |-> tr] :
        l \in FluxLoops, a \in CoeffA, t0 \in CoeffT0, k \in BepToFlux,
        ser \in {x \in FluxSeries : Len(x.time_vector) = Len(x.temperature)},
        h \in BOOLEAN, tr \in FluxTraces}

InlineFlux ==
    /\ imp_in # Idle
    /\ ~imp_out.parser.ran
    /\ \E unit_ok \in BOOLEAN :
        imp_out' = [imp_out EXCEPT !.parser = inline_flux(imp_in, unit_ok)]
    /\ UNCHANGED <<archiveVars, parseVars, fluxVars, imp_in, chanVars, linkVars,
                   uploadVars, gasVars, restVars>>

UtilsFlux ==
    /\ imp_in # Idle
    /\ ~imp_out.utils.ran
    /\ imp_out' = [imp_out EXCEPT !.utils = calculate_impinging_flux(imp_in)]
    /\ UNCHANGED <<archiveVars, parseVars, fluxVars, imp_in, chanVars, linkVars,
                   uploadVars, gasVars, restVars>>

InitImpinging ==
    /\ ArchiveInit
    /\ files = [n \in FileNames |-> NoFile]
    /\ ParseIdle
    /\ FluxIdle
    /\ imp_in \in {x \in FluxInputs : x.has_shutters \/ x.shutters = <<>>}
    /\ imp_out = [parser |-> NotRun, utils |-> NotRun]
    /\ ChanIdle /\ LinkIdle /\ UploadIdle /\ GasIdle /\ RestIdle

NextImpinging == InlineFlux \/ UtilsFlux

SpecImpinging == InitImpinging /\ [][NextImpinging]_vars

\* ------------------------------------------------------------------ C11
\* C11: without a shutters table a calibrated source gets a warning in the log
\* and a flux that is written unmodulated or not at all, never all zero, and
\* parse and calculate_impinging_flux compute the same series.
C11_NoShutterSameUnmodulatedFlux ==
    (/\ imp_in # Idle
     /\ imp_out.parser.ran /\ imp_out.utils.ran
     /\ ~imp_in.has_shutters
     /\ imp_in.EPIC_loop \in Calibrated) =>
        /\ "warning" \in imp_out.parser.log
        /\ "warning" \in imp_out.utils.log
        /\ imp_out.parser.written =>
              imp_out.parser.modulated_flux = imp_out.parser.impinging_flux
        /\ imp_out.parser.modulated_flux = imp_out.utils.modulated_flux

\* ------------------------------------------------------------------ C12
\* C12: for a loop without a calibration block no flux is computed or written,
\* nothing is raised and a warning is logged, in parse and in
\* calculate_impinging_flux.
C12_UncalibratedLoopWarnsAndSkips ==
    (imp_in # Idle /\ imp_in.EPIC_loop \notin Calibrated) =>
        \A r \in {imp_out.parser, imp_out.utils} :
            r.ran =>
                /\ r.raised = None
                /\ ~r.computed /\ ~r.written
                /\ "warning" \in r.log

\* ------------------------------------------------------------------ C19
\* C19: a computed flux has one value per temperature sample; the modulated
\* flux at a sample is the flux at that sample where the shutter vector is 1 and
\* zero where it is 0; with a_parameter 0 and t0_parameter at absolute zero
\* (-273.15 degC) the flux at every sample is bep_to_flux, whatever the
\* temperature.
C19_FluxIsBepTimesModulation ==
    imp_in # Idle =>
        \A r \in {imp_out.parser, imp_out.utils} :
            (r.ran /\ r.computed) =>
                /\ Len(r.impinging_flux) = Len(imp_in.temperature)
                /\ Len(r.modulated_flux) = Len(imp_in.temperature)
                /\ \A j \in DOMAIN imp_in.temperature :
                      r.modulated_flux[j] =
                          IF r.shutter_vector[j] = 0
                          THEN [bep |-> 0, e |-> <<0, 1>>]
                          ELSE r.impinging_flux[j]
                /\ (imp_in.a_param = 0 /\ imp_in.t0_param = 0 - 27315) =>
                      \A j \in DOMAIN imp_in.temperature :
                          r.impinging_flux[j] = [bep |-> imp_in.bep_to_flux, e |-> <<0, 1>>]

C19_Witness ==
    /\ imp_in # Idle
    /\ imp_out.utils.ran /\ imp_out.parser.ran /\ imp_out.parser.computed
    /\ imp_in.a_param = 0 /\ imp_in.t0_param = 0 - 27315 /\ imp_in.bep_to_flux = 2
    /\ imp_in.temperature = <<0, 10000>>
    /\ imp_out.utils.shutter_vector = <<0, 1>>
    /\ imp_out.utils.modulated_flux = <<[bep |-> 0, e |-> <<0, 1>>], [bep |-> 2, e |-> <<0, 1>>]>>
    /\ imp_out.parser.modulated_flux = imp_out.utils.modulated_flux

\* ------------------------------------------------------- channel reading
MaxIndex == 2

DataCells == {Absent, NaN, "", "T1", "T1.txt", "T2"}
UnitCells == {Absent, NaN, "", "C", "sccm", "mbar"}
\* The log files found in the folder.
Disks == {{}, {"T1.txt"}}

\* Naive local timestamps of a log, and the instants of growth_starttime.
Walls == 0..3
Epochs == {0 - 1, 0}

NoArray == [none |-> TRUE, v |-> <<>>]
Array(v) == [none |-> FALSE, v |-> v]

\* utils.py 594: f'{string_filename.replace(".txt", "")}.txt'
log_path(string_filename) ==
    IF string_filename \in {"T1", "T1.txt"} THEN "T1.txt"
    ELSE IF string_filename = "T2" THEN "T2.txt"
    ELSE ".txt"

\* utils.py 573-597. dataframe[column_header] is a Series for a DataFrame and
\* the cell itself for a row; `pd.Series or ...` is pd.Series.
epiclog_read_handle_empty(dataframe, on_disk) ==
    LET cell == dataframe.data
        string_filename ==
            IF cell = Absent THEN None
            ELSE IF dataframe.kind = "DataFrame"
            THEN IF ~dataframe.empty /\ cell # NaN THEN cell ELSE None
            ELSE IF cell # NaN /\ cell # "" THEN cell ELSE None
    IN  IF string_filename # None /\ log_path(string_filename) \in on_disk
        THEN [raised |-> None, data_array |-> "data"]
        ELSE [raised |-> None, data_array |-> None]

\* DatetimeIndex.tz_localize("Europe/Berlin") on the night the clocks go back:
\* hours 0 and 1 are summer time (UTC+2), hour 2 occurs twice and raises, later
\* hours are winter time (UTC+1).
tz_localize(wall) ==
    IF wall < 2 THEN [raised |-> None, instant |-> wall - 2]
    ELSE IF wall = 2 THEN [raised |-> "AmbiguousTimeError", instant |-> 0]
    ELSE [raised |-> None, instant |-> wall - 1]

\* (aware - growth_starttime).total_seconds()
elapsed_unshifted(instant, growth_start) == instant

elapsed(instant, growth_start) == instant - growth_start

\* utils.py 659-662 / 876-878: the relative time of every stamp, in order.
relative_time(stamps, growth_start) ==
    IF \E i \in DOMAIN stamps : tz_localize(stamps[i]).raised # None
    THEN [raised |-> "AmbiguousTimeError", array |-> NoArray]
    ELSE [raised |-> None,
          array |-> Array([i \in DOMAIN stamps |->
                              elapsed(tz_localize(stamps[i]).instant, growth_start)])]

\* utils.py 621-666
epiclog_parse_timeseries(dataframe, on_disk, index, growth_start) ==
    LET data_array == epiclog_read_handle_empty(dataframe, on_disk).data_array
        unit == handle_unit(dataframe)
        rel == relative_time(index, growth_start)
    IN  IF unit.raised # None
        THEN [raised |-> unit.raised, pint_quantity |-> None,
              relative_time_array |-> NoArray]
        ELSE IF data_array = None
        THEN [raised |-> None, pint_quantity |-> None, relative_time_array |-> NoArray]
        ELSE IF rel.raised # None
        THEN [raised |-> rel.raised, pint_quantity |-> None,
              relative_time_array |-> NoArray]
        ELSE [raised |-> None, pint_quantity |-> unit.unit,
              relative_time_array |-> rel.array]

\* utils.py 866-879: without the file nothing is returned.
read_shutters(present, stamps, growth_start) ==
    IF ~present
    THEN [raised |-> None, TimeDifference |-> NoArray]
    ELSE LET rel == relative_time(stamps, growth_start)
         IN  [raised |-> rel.raised, TimeDifference |-> rel.array]

Dataframes ==
    {[kind |-> k, empty |-> e, data |-> d, unit |-> u] :
        k \in {"DataFrame", "Series"}, e \in BOOLEAN, d \in DataCells, u \in UnitCells}

ChannelInputs ==
    {[dataframe |-> df, on_disk |-> fs, index |-> ix, shutter_stamps |-> sh,
      growth_starttime |-> g] :
        df \in {x \in Dataframes : x.kind = "Series" => ~x.empty},
        fs \in Disks, ix \in SeqsUpTo(Walls, MaxIndex),
        sh \in SeqsUpTo(Walls, 1), g \in Epochs}

NotCalled == [called |-> FALSE]

\* One of the three readers is called on the dataframe, and read_shutters on
\* the shutters file of the same run.
ReadHandleEmpty ==
    /\ chan_in # Idle
    /\ ~chan_out.read.called /\ ~chan_out.unit.called /\ ~chan_out.series.called
    /\ chan_out' = [chan_out EXCEPT !.read =
            [called |-> TRUE,
             res |-> epiclog_read_handle_empty(chan_in.dataframe, chan_in.on_disk)]]
    /\ UNCHANGED <<archiveVars, parseVars, fluxVars, impVars, chan_in, linkVars,
                   uploadVars, gasVars, restVars>>

HandleUnit ==
    /\ chan_in # Idle
    /\ ~chan_out.read.called /\ ~chan_out.unit.called /\ ~chan_out.series.called
    /\ chan_out' = [chan_out EXCEPT !.unit =
            [called |-> TRUE, res |-> handle_unit(chan_in.dataframe)]]
    /\ UNCHANGED <<archiveVars, parseVars, fluxVars, impVars, chan_in, linkVars,
                   uploadVars, gasVars, restVars>>

ParseTimeseries ==
    /\ chan_in # Idle
    /\ ~chan_out.read.called /\ ~chan_out.unit.called /\ ~chan_out.series.called
    /\ chan_out' = [chan_out EXCEPT !.series =
            [called |-> TRUE,
             res |-> epiclog_parse_timeseries(chan_in.dataframe, chan_in.on_disk,
                                              chan_in.index, chan_in.growth_starttime)]]
    /\ UNCHANGED <<archiveVars, parseVars, fluxVars, impVars, chan_in, linkVars,
                   uploadVars, gasVars, restVars>>

ReadShutters_utils ==
    /\ chan_in # Idle
    /\ ~chan_out.shutters.called
    /\ \E present \in BOOLEAN :
        chan_out' = [chan_out EXCEPT !.shutters =
            [called |-> TRUE, present |-> present,
             res |-> read_shutters(present, chan_in.shutter_stamps,
                                   chan_in.growth_starttime)]]
    /\ UNCHANGED <<archiveVars, parseVars, fluxVars, impVars, chan_in, linkVars,
                   uploadVars, gasVars, restVars>>

InitChannel ==
    /\ ArchiveInit
    /\ files = [n \in FileNames |-> NoFile]
    /\ ParseIdle
    /\ FluxIdle
    /\ chan_in \in ChannelInputs
    /\ chan_out = [read |-> NotCalled, unit |-> NotCalled, series |-> NotCalled,
                   shutters |-> NotCalled]
    /\ ImpIdle /\ LinkIdle /\ UploadIdle /\ GasIdle /\ RestIdle

NextChannel == ReadHandleEmpty \/ HandleUnit \/ ParseTimeseries \/ ReadShutters_utils

SpecChannel == InitChannel /\ [][NextChannel]_vars

\* ------------------------------------------------------------------ C13
\* The filename cell is absent, blank or NaN, or names a file that is not there.
EmptyChannel ==
    \/ chan_in.dataframe.data \in {Absent, NaN, ""}
    \/ log_path(chan_in.dataframe.data) \notin chan_in.on_disk

\* C13: for such a cell epiclog_read_handle_empty raises nothing and returns no
\* data, and epiclog_parse_timeseries raises nothing and returns no values and
\* no times, for a sheet and for a single row.
C13_EmptyChannelNoDataNoRaise ==
    (chan_in # Idle /\ EmptyChannel) =>
        /\ chan_out.read.called =>
              /\ chan_out.read.res.raised = None
              /\ chan_out.read.res.data_array = None
        /\ chan_out.series.called =>
              /\ chan_out.series.res.raised = None
              /\ chan_out.series.res.pint_quantity = None
              /\ chan_out.series.res.relative_time_array = NoArray

\* ------------------------------------------------------------------ C15
\* C15: handle_unit raises nothing; "C" gives Celsius, "sccm" cubic meter per
\* second, another string itself, an absent or blank cell no unit; a row gives
\* what a sheet with that first row gives.
C15_HandleUnitTotal ==
    (chan_in # Idle /\ chan_out.unit.called /\ ~chan_in.dataframe.empty) =>
        LET u == chan_in.dataframe.unit
            r == chan_out.unit.res
        IN  /\ r.raised = None
            /\ u = "C" => r.unit = "deg_C"
            /\ u = "sccm" => r.unit = "meter ** 3 / second"
            /\ u \in {"", "mbar"} => r.unit = u
            /\ u \in {Absent, NaN} => r.unit = None
            /\ r = handle_unit([chan_in.dataframe EXCEPT !.kind = "DataFrame"])

\* ------------------------------------------------------------------ C16
NonDecreasing(s) == \A i, j \in DOMAIN s : i < j => s[i] <= s[j]

\* The relative times v are the stamps, in order, counted from growth_start.
AlignedTo(v, stamps, growth_start) ==
    /\ Len(v) = Len(stamps)
    /\ \A i \in DOMAIN stamps : v[i] = tz_localize(stamps[i]).instant - growth_start
    /\ NonDecreasing(v) <=> NonDecreasing(stamps)

\* C16: a channel series and a shutter trace that are returned have one
\* relative time per stamp, in the order of the stamps, each the stamp's instant
\* minus growth_starttime, the same one for both; the relative times are
\* non-decreasing exactly when the stamps are.
C16_AlignmentKeepsOrderAndEpoch ==
    chan_in # Idle =>
        /\ (chan_out.series.called /\ ~chan_out.series.res.relative_time_array.none) =>
              AlignedTo(chan_out.series.res.relative_time_array.v, chan_in.index,
                        chan_in.growth_starttime)
        /\ (chan_out.shutters.called /\ ~chan_out.shutters.res.TimeDifference.none) =>
              AlignedTo(chan_out.shutters.res.TimeDifference.v, chan_in.shutter_stamps,
                        chan_in.growth_starttime)

C16_Witness ==
    /\ chan_in # Idle
    /\ chan_in.growth_starttime = 0 - 1
    /\ chan_in.index = <<3, 0>>
    /\ chan_out.series.called
    /\ chan_out.series.res.relative_time_array = Array(<<3, 0 - 1>>)
    /\ chan_in.shutter_stamps = <<1>>
    /\ chan_out.shutters.called
    /\ chan_out.shutters.res.TimeDifference = Array(<<0>>)

\* --------------------------------------------------------------- linking
\* The entries nomad.search.search may return for a growth_id: the upload they
\* are in, their entry_id and the format of their mainfile.
Uploads == {upload_id, "upload2"}
Entries == [upload_id : Uploads, entry_id : {"e1", "e2"}, format : {"yaml", "json"}]

\* utils.py 444-453: the entries found in the upload of the archive.
entries_same_upload(data, current) ==
    {i \in DOMAIN data : data[i].upload_id = current}

\* utils.py 421-472: the reference string returned, and what was logged.
link_growth_process(data, current) ==
    LET same == entries_same_upload(data, current)
    IN  IF Len(data) = 0
        THEN [ret |-> NoRef, warned |-> TRUE, error |-> FALSE, raised |-> FALSE]
        ELSE IF Len(data) > 1
        THEN IF Cardinality(same) > 1
             THEN [ret |-> NoRef, warned |-> TRUE, error |-> TRUE, raised |-> FALSE]
             ELSE IF Cardinality(same) = 1
             THEN [ret |-> <<get_reference(current, data[CHOOSE i \in same : TRUE].entry_id),
                             "#data">>,
                   warned |-> TRUE, error |-> FALSE, raised |-> FALSE]
             ELSE [ret |-> NoRef, warned |-> TRUE, error |-> FALSE, raised |-> FALSE]
        ELSE [ret |-> <<get_reference(current, data[1].entry_id), "#data">>,
              warned |-> FALSE, error |-> FALSE, raised |-> FALSE]

\* utils.py 356-418 called on the result of a search.
CallLinkExperiment ==
    /\ link_out = NotCalled
    /\ \E io_ok \in BOOLEAN :
        LET r == link_experiment(Len(search_data), io_ok)
        IN  link_out' = [called |-> TRUE, fn |-> "link_experiment", ret |-> NoRef,
                         warned |-> r.warned, error |-> r.error, raised |-> r.raised,
                         patched |-> r.patched]
    /\ UNCHANGED <<archiveVars, parseVars, fluxVars, impVars, chanVars, search_data,
                   uploadVars, gasVars, restVars>>

\* utils.py 421-472 called on the result of a search.
CallLinkGrowthProcess ==
    /\ link_out = NotCalled
    /\ LET r == link_growth_process(search_data, upload_id)
       IN  link_out' = [called |-> TRUE, fn |-> "link_growth_process", ret |-> r.ret,
                        warned |-> r.warned, error |-> r.error, raised |-> r.raised,
                        patched |-> FALSE]
    /\ UNCHANGED <<archiveVars, parseVars, fluxVars, impVars, chanVars, search_data,
                   uploadVars, gasVars, restVars>>

InitLink ==
    /\ ArchiveInit
    /\ files = [n \in FileNames |-> NoFile]
    /\ ParseIdle
    /\ FluxIdle
    /\ search_data \in SeqsUpTo(Entries, MaxMatches)
    /\ link_out = NotCalled
    /\ ImpIdle /\ ChanIdle /\ UploadIdle /\ GasIdle /\ RestIdle

NextLink == CallLinkExperiment \/ CallLinkGrowthProcess

SpecLink == InitLink /\ [][NextLink]_vars

\* ------------------------------------------------------------------ C17
\* More than one of the entries found is in one upload.
AmbiguousInOneUpload ==
    \E u \in Uploads : Cardinality(entries_same_upload(search_data, u)) > 1

\* C17 as stated: a link is made only when exactly one entry is found; with none
\* found a warning is logged and nothing is returned; with more than one in the
\* same upload the call fails with an error; in both cases nothing is patched
\* and no reference is returned.
C17_AmbiguityFails ==
    link_out # NotCalled =>
        /\ Len(search_data) = 0 =>
              link_out.warned /\ link_out.ret = NoRef /\ ~link_out.patched
        /\ AmbiguousInOneUpload =>
              link_out.raised /\ link_out.ret = NoRef /\ ~link_out.patched
        /\ (link_out.ret # NoRef \/ link_out.patched) => Len(search_data) = 1

\* C17 amended: with no entry found a warning is logged, nothing is returned or
\* patched and nothing is raised. link_experiment patches only when exactly one
\* entry is found, and with more than one, in whatever uploads, logs an error
\* and returns without raising. link_growth_process returns a reference when
\* exactly one entry is found or exactly one of several is in the upload of
\* the archive; with several in that upload it logs an error, raises nothing
\* and returns nothing.
C17_AmbiguityLoggedNoLink ==
    link_out # NotCalled =>
        /\ Len(search_data) = 0 =>
              /\ link_out.warned /\ ~link_out.raised
              /\ link_out.ret = NoRef /\ ~link_out.patched
        /\ link_out.fn = "link_experiment" =>
              /\ link_out.patched => Len(search_data) = 1
              /\ Len(search_data) > 1 =>
                    link_out.error /\ ~link_out.raised /\ ~link_out.patched
        /\ link_out.fn = "link_growth_process" =>
              /\ ~link_out.raised
              /\ Cardinality(entries_same_upload(search_data, upload_id)) > 1 =>
                    link_out.error /\ link_out.ret = NoRef
              /\ link_out.ret # NoRef <=>
                    \/ Len(search_data) = 1
                    \/ Cardinality(entries_same_upload(search_data, upload_id)) = 1

C17_Witness ==
    /\ link_out # NotCalled
    /\ link_out.fn = "link_experiment"
    /\ Len(search_data) = 2
    /\ search_data[1].upload_id = search_data[2].upload_id
    /\ link_out.error /\ ~link_out.patched

\* ------------------------------------------------- the runs of one upload
\* The mainfiles raw/<folder>/<data_file> of one upload.
Mainfiles == [folder : {"A", "B"}, data_file : {"x.xlsx", "y.xlsx"}]

\* parser.py 112: mainfile.split("/")[-1]
data_file_of(mainfile) == mainfile.data_file

\* data_file[:-5]
stem(data_file) == IF data_file = "x.xlsx" THEN "x" ELSE "y"

\* parser.py 211, 125, 126: the names, in the raw directory of the upload, of
\* the container and of the two archives of a run.
hdf_filename(mainfile) == <<stem(data_file_of(mainfile)), ".h5">>

process_filename_of(mainfile) ==
    <<stem(data_file_of(mainfile)), ".GrowthMbePDI.archive.yaml">>

instrument_filename_of(mainfile) ==
    <<stem(data_file_of(mainfile)), ".InstrumentMbePDI.archive.yaml">>

RunIds == {1, 2}

RawNames ==
    UNION {{hdf_filename(m), process_filename_of(m), instrument_filename_of(m)} :
              m \in Mainfiles}

\* The archive of a run carries the growth of its folder.
ArchiveDict(kind, mainfile) == {<<"kind", kind>>, <<"name", mainfile.folder>>}

\* What a run did to a raw file.
Touch(r, how) == [run |-> r, how |-> how]

\* parser.py 212: raw_file(hdf_filename, "w")
OpenContainer(r) ==
    /\ runs[r].pc = "start"
    /\ LET name == hdf_filename(runs[r].mainfile)
       IN  raw' = [raw EXCEPT
               !.files[name] = [exists |-> TRUE, text |-> {}],
               !.touched[name] = @ \cup {Touch(r, IF raw.files[name].exists
                                                  THEN "truncated" ELSE "created")}]
    /\ runs' = [runs EXCEPT ![r].pc = "rows"]
    /\ UNCHANGED <<archiveVars, parseVars, fluxVars, impVars, chanVars, linkVars, gasVars, restVars>>

\* parser.py 274, 325, 431, 455, 518, 636: raw_file(hdf_filename, "a")
AppendContainer(r) ==
    /\ runs[r].pc = "rows"
    /\ LET name == hdf_filename(runs[r].mainfile)
       IN  raw' = [raw EXCEPT !.touched[name] = @ \cup {Touch(r, "appended")}]
    /\ runs' = [runs EXCEPT ![r].pc = "process"]
    /\ UNCHANGED <<archiveVars, parseVars, fluxVars, impVars, chanVars, linkVars, gasVars, restVars>>

\* parser.py 683-697: create_archive for the process or the instrument archive.
PersistArchive(r, at, kind, name, next) ==
    /\ runs[r].pc = at
    /\ LET res == create_archive(raw.files, ArchiveDict(kind, runs[r].mainfile),
                                 "server", name, FALSE)
       IN  raw' = [raw EXCEPT
               !.files = res.files,
               !.touched[name] = IF res.wrote
                                 THEN @ \cup {Touch(r, IF raw.files[name].exists
                                                       THEN "truncated" ELSE "created")}
                                 ELSE @]
    /\ runs' = [runs EXCEPT ![r].pc = next]
    /\ UNCHANGED <<archiveVars, parseVars, fluxVars, impVars, chanVars, linkVars, gasVars, restVars>>

PersistProcess(r) ==
    PersistArchive(r, "process", "GrowthMbePDI",
                   process_filename_of(runs[r].mainfile), "instrument")

PersistInstrument(r) ==
    PersistArchive(r, "instrument", "InstrumentMbePDI",
                   instrument_filename_of(runs[r].mainfile), "done")

InitUpload ==
    /\ ArchiveInit
    /\ files = [n \in FileNames |-> NoFile]
    /\ ParseIdle
    /\ FluxIdle
    /\ runs \in {[r \in RunIds |-> [mainfile |-> m[r], pc |-> "start"]] :
                    m \in {x \in Mainfiles \X Mainfiles : x[1] # x[2]}}
    /\ raw = [files |-> [n \in RawNames |-> NoFile], touched |-> [n \in RawNames |-> {}]]
    /\ ImpIdle /\ ChanIdle /\ LinkIdle /\ GasIdle /\ RestIdle

NextUpload ==
    \E r \in RunIds :
        \/ OpenContainer(r)
        \/ AppendContainer(r)
        \/ PersistProcess(r)
        \/ PersistInstrument(r)

SpecUpload == InitUpload /\ [][NextUpload]_vars

\* ------------------------------------------------------------------ C18
\* C18: however the runs of two different mainfiles of an upload interleave, no
\* raw file (container, process archive, instrument archive) is created,
\* truncated or appended to by both.
C18_RunsOwnTheirFiles ==
    \A n \in DOMAIN raw.touched : \A t1, t2 \in raw.touched[n] : t1.run = t2.run

\* ------------------------------------------------------------ gas mixing
MaxGasRows == 3

\* A row of the gas mixing sheet: its date and time cells hold text or are
\* blank, wall is the local time they spell, mfc tells whether the dataset
\* of mfc_flow is in the container.
GasRows == [cell : {"text", "blank"}, wall : Walls, mfc : {"ok", "nodataset"}]

\* growth_starttime: None, or an instant.
GrowthStarts == {[known |-> FALSE, at |-> 0]} \cup {[known |-> TRUE, at |-> g] : g \in {0 - 1, 1}}

\* parser.py 86-93: datetime.combine(...).replace(tzinfo=ZoneInfo("Europe/Berlin"))
\* on the night the clocks go back; the repeated hour is read as summer time.
fill_datetime(wall) == IF wall <= 2 THEN wall - 2 ELSE wall - 1

\* parser.py 361: gasmixing_datetime > growth_starttime
after_growth_start_or_at(gasmixing_datetime, growth_start) ==
    gasmixing_datetime >= growth_start

after_growth_start(gasmixing_datetime, growth_start) == gasmixing_datetime > growth_start

\* parser.py 361-362: `continue` goes on with the next index of the reversed
\* sheet; index 0 ends the loop.
next_index_break(gas_index) == 0

next_index_continue(gas_index) == gas_index - 1

GasStart == [gas_flow |-> <<>>, i |-> 0, raised |-> None, warned |-> FALSE]

\* parser.py 347-387: the loop over reversed(gasmixing_sheet.index), from
\* gas_index down to the head of the sheet. A blank date cell is NaN, which is
\* true, and fill_datetime raises on it. An entry of gas_flow records the rows
\* whose pointers were written into it.
RECURSIVE gas_mixing_loop(_, _, _, _)
gas_mixing_loop(gasmixing_sheet, gas_index, st, growth) ==
    IF gas_index = 0 \/ st.raised # None
    THEN st
    ELSE LET gas_row == gasmixing_sheet[gas_index]
         IN  IF gas_row.cell = "blank"
             THEN [st EXCEPT !.raised = "TypeError"]
             ELSE IF growth.known /\ after_growth_start(fill_datetime(gas_row.wall), growth.at)
             THEN gas_mixing_loop(gasmixing_sheet, next_index_continue(gas_index), st, growth)
             ELSE LET appended == Append(st.gas_flow, [written |-> {}])
                      st1 == [st EXCEPT
                                !.gas_flow = [appended EXCEPT ![st.i + 1].written =
                                                  @ \cup {gas_index}],
                                !.i = @ + 1,
                                !.warned = @ \/ ~growth.known,
                                !.raised = channel_error(gas_row.mfc, FALSE)]
                  IN  gas_mixing_loop(gasmixing_sheet, gas_index - 1, st1, growth)

FillGasMixing ==
    /\ gas_in # Idle
    /\ gas_out = NotCalled
    /\ gas_out' = [called |-> TRUE,
                   res |-> gas_mixing_loop(gas_in.gasmixing_sheet,
                                           Len(gas_in.gasmixing_sheet), GasStart,
                                           gas_in.growth_starttime)]
    /\ UNCHANGED <<archiveVars, parseVars, fluxVars, impVars, chanVars, linkVars,
                   uploadVars, gas_in, restVars>>

InitGas ==
    /\ ArchiveInit
    /\ files = [n \in FileNames |-> NoFile]
    /\ ParseIdle
    /\ FluxIdle
    /\ gas_in \in {[gasmixing_sheet |-> sh, growth_starttime |-> g] :
                      sh \in SeqsUpTo(GasRows, MaxGasRows), g \in GrowthStarts}
    /\ gas_out = NotCalled
    /\ ImpIdle /\ ChanIdle /\ LinkIdle /\ UploadIdle /\ RestIdle

NextGas == FillGasMixing

SpecGas == InitGas /\ [][NextGas]_vars

\* ------------------------------------------------------------------ C20
\* The rows at or before the growth start, from the tail of the sheet to its
\* head, as a sequence of row positions.
RECURSIVE AcceptedRows(_, _, _)
AcceptedRows(gasmixing_sheet, gas_index, growth_start) ==
    IF gas_index = 0
    THEN <<>>
    ELSE IF fill_datetime(gasmixing_sheet[gas_index].wall) <= growth_start
    THEN <<gas_index>> \o AcceptedRows(gasmixing_sheet, gas_index - 1, growth_start)
    ELSE AcceptedRows(gasmixing_sheet, gas_index - 1, growth_start)

\* C20: with a known growth start, when the loop over the gas mixing sheet ends
\* the gas_flow of the PLASMA source has one entry for every row whose time is
\* at or before the growth start and for no other row, in tail-to-head order,
\* and the k-th entry was written once, with the pointers of the k-th such row.
C20_GasFlowIsAcceptedRows ==
    (/\ gas_in # Idle
     /\ gas_out # NotCalled
     /\ gas_in.growth_starttime.known
     /\ gas_out.res.raised = None) =>
        LET accepted == AcceptedRows(gas_in.gasmixing_sheet, Len(gas_in.gasmixing_sheet),
                                     gas_in.growth_starttime.at)
        IN  /\ Len(gas_out.res.gas_flow) = Len(accepted)
            /\ \A k \in DOMAIN accepted : gas_out.res.gas_flow[k].written = {accepted[k]}

C20_Witness ==
    /\ gas_in # Idle
    /\ gas_out # NotCalled
    /\ gas_in.growth_starttime = [known |-> TRUE, at |-> 1]
    /\ Len(gas_in.gasmixing_sheet) = 3
    /\ gas_in.gasmixing_sheet[1].wall = 1
    /\ gas_in.gasmixing_sheet[2].wall = 3
    /\ gas_in.gasmixing_sheet[3].wall = 2
    /\ gas_out.res.raised = None
    /\ gas_out.res.gas_flow = <<[written |-> {3}], [written |-> {1}]>>

\* ------------------------------------------------------------------ C21
\* The rows whose pointers were written into an entry of gas_flow.
AttachedRows == UNION {gas_out.res.gas_flow[k].written : k \in DOMAIN gas_out.res.gas_flow}

GasLoopEnded ==
    /\ gas_in # Idle
    /\ gas_out # NotCalled
    /\ gas_in.growth_starttime.known
    /\ gas_out.res.raised = None

RowIsAfterStart(k) ==
    fill_datetime(gas_in.gasmixing_sheet[k].wall) > gas_in.growth_starttime.at

\* C21 as stated: the scan stops at the first row whose time is after the
\* growth start, so no row visited after such a row (a row nearer the head of
\* the sheet) is attached to the source.
C21_ScanStopsAtLaterRow ==
    GasLoopEnded =>
        \A k \in DOMAIN gas_in.gasmixing_sheet :
            RowIsAfterStart(k) => \A j \in 1..(k - 1) : j \notin AttachedRows

\* C21: a row whose time is after the growth start is passed over and the scan
\* goes on: such a row is never attached, and every row at or before the
\* growth start is attached, the ones visited after a passed-over row included.
C21_LaterRowIsPassedOver ==
    GasLoopEnded =>
        \A k \in DOMAIN gas_in.gasmixing_sheet :
            /\ RowIsAfterStart(k) => k \notin AttachedRows
            /\ ~RowIsAfterStart(k) => k \in AttachedRows

C21_Witness ==
    /\ GasLoopEnded
    /\ Len(gas_in.gasmixing_sheet) = 2
    /\ RowIsAfterStart(2)
    /\ ~RowIsAfterStart(1)
    /\ AttachedRows = {1}

\* ---------------------------------------------------- container handles
MaxHandleRows == 2

\* The channels whose attributes or links one `with raw_file(hdf_filename, "a")`
\* block of parse writes. parser.py 274-301:
EnvBlock == <<"pyrometry_temperature", "pressure_1", "pressure_2", "bep">>

\* parser.py 325-342
PlasmaBlock == <<"f_power", "r_power">>

\* parser.py 378-387, once for every accepted row of the gas mixing sheet
GasBlock == <<"mfc_flow">>

\* parser.py 431-438
CellBlock == <<"temp_mv">>

\* parser.py 455-464
DfcBlock == <<"hl_temp_mv">>

\* parser.py 518-527: the group named after the EPIC_loop
FluxBlock == <<"EPIC_loop">>

\* parser.py 636-670: the units of the substrate temperature and the links of
\* /pyro_vs_subtemp
SubBlock == <<"temp_mv", "pyro_vs_subtemp">>

\* A row of the sources sheet as far as the with-blocks depend on it: its
\* type, the accepted gas mixing rows of a PLASMA row, whether the loop of a
\* cell row is calibrated.
HandleRows ==
    {r \in [source_type : RowTypes, gas_rows : 0..1, calibrated : BOOLEAN] :
        /\ r.source_type # "PLASMA" => r.gas_rows = 0
        /\ r.source_type \in {"PLASMA", "SUB"} => ~r.calibrated}

\* parser.py 305-679: the with-blocks of one iteration, in the order of the code.
with_blocks(row) ==
    LET flux == IF row.calibrated THEN <<FluxBlock>> ELSE <<>>
    IN  IF row.source_type = "PLASMA"
        THEN <<PlasmaBlock>> \o [k \in 1..row.gas_rows |-> GasBlock]
        ELSE IF row.source_type = "SUB"
        THEN <<SubBlock>>
        ELSE IF row.source_type = "DFC"
        THEN <<CellBlock, DfcBlock>> \o flux
        ELSE <<CellBlock>> \o flux

\* parser.py 274-679: the with-blocks of a run.
RECURSIVE blocks_of(_)
blocks_of(rows) ==
    IF rows = <<>>
    THEN <<EnvBlock>>
    ELSE blocks_of(SubSeq(rows, 1, Len(rows) - 1)) \o with_blocks(rows[Len(rows)])

\* `with archive.m_context.raw_file(hdf_filename, "a") as newfile:` opens the
\* container file.
OpenRawFile ==
    /\ hdf_run # Idle
    /\ ~hdf_run.failed
    /\ hdf_run.b <= Len(hdf_run.blocks)
    /\ hdf_run.handles = {}
    /\ hdf_run' = [hdf_run EXCEPT !.handles = {"raw_file"}, !.w = 0, !.written = {}]
    /\ UNCHANGED <<archiveVars, parseVars, fluxVars, impVars, chanVars, linkVars,
                   uploadVars, gasVars, rowVars, sampleVars, compareVars>>

\* `with h5py.File(newfile.name, "a") as hdf:` opens it a second time, by name.
OpenHdf ==
    /\ hdf_run # Idle
    /\ hdf_run.handles = {"raw_file"}
    /\ hdf_run.w = 0
    /\ hdf_run' = [hdf_run EXCEPT !.handles = {"raw_file", "h5py"}]
    /\ UNCHANGED <<archiveVars, parseVars, fluxVars, impVars, chanVars, linkVars,
                   uploadVars, gasVars, rowVars, sampleVars, compareVars>>

\* The next statement of the block writes into the group of its channel.
WriteChannel ==
    /\ hdf_run # Idle
    /\ "h5py" \in hdf_run.handles
    /\ hdf_run.w < Len(hdf_run.blocks[hdf_run.b])
    /\ hdf_run' = [hdf_run EXCEPT
                      !.w = @ + 1,
                      !.written = @ \cup {hdf_run.blocks[hdf_run.b][hdf_run.w + 1]}]
    /\ UNCHANGED <<archiveVars, parseVars, fluxVars, impVars, chanVars, linkVars,
                   uploadVars, gasVars, rowVars, sampleVars, compareVars>>

\* The next statement of the block raises (the dataset is not in the
\* container): both with-statements close their handle and the run ends.
WriteRaises ==
    /\ hdf_run # Idle
    /\ "h5py" \in hdf_run.handles
    /\ hdf_run.w < Len(hdf_run.blocks[hdf_run.b])
    /\ hdf_run' = [hdf_run EXCEPT !.handles = {}, !.failed = TRUE]
    /\ UNCHANGED <<archiveVars, parseVars, fluxVars, impVars, chanVars, linkVars,
                   uploadVars, gasVars, rowVars, sampleVars, compareVars>>

\* The end of the inner with-block.
CloseHdf ==
    /\ hdf_run # Idle
    /\ "h5py" \in hdf_run.handles
    /\ hdf_run.w = Len(hdf_run.blocks[hdf_run.b])
    /\ hdf_run' = [hdf_run EXCEPT !.handles = {"raw_file"}]
    /\ UNCHANGED <<archiveVars, parseVars, fluxVars, impVars, chanVars, linkVars,
                   uploadVars, gasVars, rowVars, sampleVars, compareVars>>

\* The end of the outer with-block; the run goes on to the next block.
CloseRawFile ==
    /\ hdf_run # Idle
    /\ hdf_run.handles = {"raw_file"}
    /\ hdf_run.w > 0
    /\ hdf_run' = [hdf_run EXCEPT !.handles = {}, !.b = @ + 1]
    /\ UNCHANGED <<archiveVars, parseVars, fluxVars, impVars, chanVars, linkVars,
                   uploadVars, gasVars, rowVars, sampleVars, compareVars>>

InitHandles ==
    /\ ArchiveInit
    /\ files = [n \in FileNames |-> NoFile]
    /\ ParseIdle
    /\ FluxIdle
    /\ ImpIdle /\ ChanIdle /\ LinkIdle /\ UploadIdle /\ GasIdle
    /\ hdf_run \in {[blocks |-> blocks_of(rows), b |-> 1, w |-> 0, handles |-> {},
                      written |-> {}, failed |-> FALSE] :
                        rows \in SeqsUpTo(HandleRows, MaxHandleRows)}
    /\ RowIdle /\ SampleIdle /\ CompareIdle

NextHandles ==
    \/ OpenRawFile
    \/ OpenHdf
    \/ WriteChannel
    \/ WriteRaises
    \/ CloseHdf
    \/ CloseRawFile

SpecHandles == InitHandles /\ [][NextHandles]_vars

\* ------------------------------------------------------------------ C22
\* C22: while a run holds the container open in append mode, the writes made
\* since the open are to one channel only, and at most one handle on the
\* container is open.
C22_OneChannelPerOpen ==
    hdf_run # Idle =>
        /\ Cardinality(hdf_run.written) <= 1
        /\ Cardinality(hdf_run.handles) <= 1

\* ------------------------------------------------------------------ C23
\* C23: whatever the sources sheet, two rows with the same EPIC_loop included,
\* the run does not end at the creation of a flux group, and when the run is
\* done every source with a calibrated loop has its flux stored in the group
\* of its loop.
C23_FluxGroupPerCalibratedRow ==
    /\ ~(pc = "failed" /\ err = "ValueError" /\ sheet # <<>>)
    /\ pc = "done" =>
          \A i \in DOMAIN sources :
              sources[i].epic_loop \in Calibrated =>
                  sources[i].flux /\ sources[i].epic_loop \in container.groups

\* -------------------------------------------------------- source filling
MaxSubstances == 2

Substances == {"Ga", "As"}

\* The substances a cell lists, in order.
SubstanceLists == SeqsUpTo(Substances, MaxSubstances) \ {<<>>}

\* The text of a cell that lists names separated by "+".
RECURSIVE join(_)
join(names) ==
    IF Len(names) = 1
    THEN <<names[1]>>
    ELSE <<names[1], "+">> \o join(Tail(names))

\* A text cell of the sources sheet: blank (read as NaN) or a text.
BlankText == [blank |-> TRUE, text |-> <<>>]

TextCells == {BlankText} \cup {[blank |-> FALSE, text |-> join(names)] : names \in SubstanceLists}

\* A numeric cell of the sources sheet: blank (read as NaN) or a number of mm.
BlankNumber == [blank |-> TRUE, v |-> 0]

Number_mm(v) == [blank |-> FALSE, v |-> v]

\* parser.py 567, 573, 594: the truth value of a cell; NaN is true, 0.0 is not.
truthy(cell) == cell.blank \/ cell.v # 0

\* parser.py 568: str(sources_row[key]); str(nan) is "nan".
str(cell) == IF cell.blank THEN <<"nan">> ELSE cell.text

\* parser.py 568: str.split("+")
RECURSIVE split(_, _)
split(text, sep) ==
    IF \A i \in DOMAIN text : text[i] # sep
    THEN <<text>>
    ELSE LET i == CHOOSE i \in DOMAIN text :
                      text[i] = sep /\ \A j \in 1..(i - 1) : text[j] # sep
         IN  <<SubSeq(text, 1, i - 1)>> \o split(SubSeq(text, i + 1, Len(text)), sep)

\* parser.py 569-575: the loop over the substances assigns a new one-element
\* list in every iteration.
RECURSIVE substance_loop(_, _)
substance_loop(substances, substance_objs) ==
    IF substances = <<>>
    THEN substance_objs
    ELSE substance_loop(Tail(substances), <<[name |-> Head(substances)]>>)

\* parser.py 557-572: the three columns and the attribute each one fills.
keys_and_attributes ==
    <<[key |-> "primary_flux_species", attribute |-> "primary_flux_species"],
      [key |-> "secondary_flux_species", attribute |-> "secondary_flux_species"],
      [key |-> "source_material", attribute |-> "material"]>>

NoAttribute == [set |-> FALSE, objs |-> <<>>]

\* utils.py 203-251 with read_unit="mm": None for a blank cell, else a quantity.
NoQuantity == [none |-> TRUE, mm |-> 0]

Quantity(v) == [none |-> FALSE, mm |-> v]

fill_quantity(cell) == IF cell.blank THEN NoQuantity ELSE Quantity(cell.v)

NoGeometry ==
    [set |-> FALSE, source_length |-> NoQuantity,
     source_to_substrate_distance |-> NoQuantity]

\* parser.py 594-602: the subtraction raises when an operand is None.
fill_geometry(source_length, port_to_sub_distance) ==
    IF ~truthy(source_length)
    THEN [geometry |-> NoGeometry, raised |-> None]
    ELSE LET length == fill_quantity(source_length)
             flange_to_substrate_distance == fill_quantity(port_to_sub_distance)
             made == [NoGeometry EXCEPT !.set = TRUE, !.source_length = length]
         IN  IF length.none /\ flange_to_substrate_distance.none
             THEN [geometry |-> made, raised |-> "TypeError"]
             ELSE IF length.none \/ flange_to_substrate_distance.none
             THEN [geometry |-> made, raised |-> "DimensionalityError"]
             ELSE [geometry |->
                       [made EXCEPT !.source_to_substrate_distance =
                            Quantity(flange_to_substrate_distance.mm - length.mm)],
                   raised |-> None]

SourceRows ==
    [primary_flux_species : TextCells,
     secondary_flux_species : TextCells,
     source_material : TextCells,
     date : {"text", "blank"},
     source_length : {BlankNumber, Number_mm(0), Number_mm(10)},
     port_to_sub_distance : {BlankNumber, Number_mm(30)}]

RowStart ==
    [stage |-> "substances", raised |-> None,
     primary_flux_species |-> NoAttribute,
     secondary_flux_species |-> NoAttribute,
     material |-> NoAttribute,
     geometry |-> NoGeometry]

\* parser.py 557-572
FillSubstances ==
    /\ row_in # Idle
    /\ row_out.stage = "substances"
    /\ LET objs(key) == [set |-> TRUE,
                         objs |-> substance_loop(split(str(row_in[key]), "+"), <<>>)]
       IN  row_out' = [row_out EXCEPT
                          !.stage = "datetime",
                          !.primary_flux_species = objs("primary_flux_species"),
                          !.secondary_flux_species = objs("secondary_flux_species"),
                          !.material = objs("source_material")]
    /\ UNCHANGED <<archiveVars, parseVars, fluxVars, impVars, chanVars, linkVars,
                   uploadVars, gasVars, handleVars, sampleVars, compareVars, row_in>>

\* parser.py 573-576: a blank date cell is NaN, which is true, and
\* fill_datetime raises on it.
FillDatetime ==
    /\ row_in # Idle
    /\ row_out.stage = "datetime"
    /\ row_out' = IF row_in.date = "blank"
                  THEN [row_out EXCEPT !.stage = "failed", !.raised = "TypeError"]
                  ELSE [row_out EXCEPT !.stage = "geometry"]
    /\ UNCHANGED <<archiveVars, parseVars, fluxVars, impVars, chanVars, linkVars,
                   uploadVars, gasVars, handleVars, sampleVars, compareVars, row_in>>

\* parser.py 577-602
FillGeometry ==
    /\ row_in # Idle
    /\ row_out.stage = "geometry"
    /\ LET r == fill_geometry(row_in.source_length, row_in.port_to_sub_distance)
       IN  row_out' = [row_out EXCEPT
                          !.stage = IF r.raised = None THEN "done" ELSE "failed",
                          !.raised = r.raised,
                          !.geometry = r.geometry]
    /\ UNCHANGED <<archiveVars, parseVars, fluxVars, impVars, chanVars, linkVars,
                   uploadVars, gasVars, handleVars, sampleVars, compareVars, row_in>>

InitSourceRow ==
    /\ ArchiveInit
    /\ files = [n \in FileNames |-> NoFile]
    /\ ParseIdle
    /\ FluxIdle
    /\ ImpIdle /\ ChanIdle /\ LinkIdle /\ UploadIdle /\ GasIdle
    /\ HandleIdle /\ SampleIdle /\ CompareIdle
    /\ row_in \in SourceRows
    /\ row_out = RowStart

NextSourceRow ==
    \/ FillSubstances
    \/ FillDatetime
    \/ FillGeometry

SpecSourceRow == InitSourceRow /\ [][NextSourceRow]_vars

\* ------------------------------------------------------------------ C24
\* The row went through the geometry part of the loop body.
GeometryReached ==
    /\ row_in # Idle
    /\ row_in.date = "text"
    /\ row_out.stage \in {"done", "failed"}

\* C24: a Source has a geometry exactly when the source_length cell of its row
\* holds a length, then with source_to_substrate_distance =
\* flange_to_substrate_distance - source_length; a row with a blank
\* source_length cell gets no geometry and raises nothing.
C24_GeometryIffSourceLength ==
    GeometryReached =>
        IF row_in.source_length.blank
        THEN ~row_out.geometry.set /\ row_out.raised = None
        ELSE /\ row_out.geometry.set
             /\ ~row_in.port_to_sub_distance.blank =>
                   /\ row_out.raised = None
                   /\ row_out.geometry.source_to_substrate_distance =
                        Quantity(row_in.port_to_sub_distance.v - row_in.source_length.v)

\* ------------------------------------------------------------------ C29
\* C29: a cell of primary_flux_species, secondary_flux_species or
\* source_material that lists n substances separated by "+" gives the
\* attribute of the Source n entries, the k-th named as the k-th substance.
C29_OneEntryPerSubstance ==
    (row_in # Idle /\ row_out.stage # "substances") =>
        \A c \in DOMAIN keys_and_attributes :
            \A names \in SubstanceLists :
                LET cell == row_in[keys_and_attributes[c].key]
                    attr == row_out[keys_and_attributes[c].attribute]
                IN  (~cell.blank /\ cell.text = join(names)) =>
                        attr.objs = [k \in DOMAIN names |-> [name |-> <<names[k]>>]]

\* ------------------------------------------------- NaN-aware comparison
MaxWidth == 1

\* A value of an entry dict: a float, a str, a list of values or a dict from
\* keys to values. items holds the elements of a list (key "") or the entries
\* of a dict in insertion order.
Float(v) == [t |-> "float", v |-> v, items |-> <<>>]

Str(v) == [t |-> "str", v |-> v, items |-> <<>>]

List(items) == [t |-> "list", v |-> "", items |-> [i \in DOMAIN items |-> [key |-> "", val |-> items[i]]]]

Dict(items) == [t |-> "dict", v |-> "", items |-> items]

Leaves == {Float("1.0"), Float(NaN)}

\* The lists of at most MaxWidth elements of V and the dicts of at most one
\* entry with a value of V.
Containers(V) ==
    {List(l) : l \in SeqsUpTo(V, MaxWidth)}
        \cup {Dict(<<>>)}
        \cup {Dict(<<[key |-> k, val |-> v]>>) : k \in Keys, v \in V}

NestedValues == Leaves \cup Containers(Leaves \cup Containers(Leaves))

keys(dict) == {dict[i].key : i \in DOMAIN dict}

item(dict, key) == dict[CHOOSE i \in DOMAIN dict : dict[i].key = key].val

\* utils.py 80-115: nan_equal, list_nan_equal and dict_nan_equal on nested
\* values; nan_equal above is the comparison of two floats.
RECURSIVE deep_nan_equal(_, _), list_nan_equal(_, _), deep_dict_nan_equal(_, _)
deep_nan_equal(a, b) ==
    IF a.t = "float" /\ b.t = "float"
    THEN nan_equal(a.v, b.v)
    ELSE IF a.t = "dict" /\ b.t = "dict"
    THEN deep_dict_nan_equal(a.items, b.items)
    ELSE IF a.t = "list" /\ b.t = "list"
    THEN list_nan_equal(a.items, b.items)
    ELSE a = b

list_nan_equal(list1, list2) ==
    /\ Len(list1) = Len(list2)
    /\ \A i \in DOMAIN list1 : deep_nan_equal(list1[i].val, list2[i].val)

deep_dict_nan_equal(dict1, dict2) ==
    /\ keys(dict1) = keys(dict2)
    /\ \A key \in keys(dict1) : deep_nan_equal(item(dict1, key), item(dict2, key))

\* utils.py 131-134: yaml.dump writes a NaN as .nan, json.dump as NaN; the
\* other floats are written as they are.
RECURSIVE dump(_, _)
dump(file_type, value) ==
    IF value.t = "float"
    THEN [t |-> "text", v |-> IF ~isnan(value.v) THEN value.v
                              ELSE IF file_type = "yaml" THEN ".nan" ELSE "NaN",
          items |-> <<>>]
    ELSE IF value.t = "str"
    THEN [t |-> "text", v |-> value.v, items |-> <<>>]
    ELSE [value EXCEPT !.items =
              [i \in DOMAIN value.items |->
                  [key |-> value.items[i].key, val |-> dump(file_type, value.items[i].val)]]]

\* utils.py 126: yaml.safe_load reads .nan as a float NaN and numbers as
\* floats; any other plain scalar, NaN without the dot included, is a str.
RECURSIVE safe_load(_)
safe_load(text) ==
    IF text.t = "text"
    THEN IF text.v = ".nan" THEN Float(NaN)
         ELSE IF text.v \in {"1.0", "2.0"} THEN Float(text.v)
         ELSE Str(text.v)
    ELSE [text EXCEPT !.items =
              [i \in DOMAIN text.items |->
                  [key |-> text.items[i].key, val |-> safe_load(text.items[i].val)]]]

\* The overwrite argument of the callers: the parsers and normalizers that
\* write yaml leave it unset (parser.py 683-697, general/schema.py 437,
\* mbe/schema.py 575), the ones that write json set it (processes.py 406-413,
\* mbe/schema.py 972-979).
overwrite_of(file_type) == file_type = "json"

\* utils.py 118-143 on an entry dict that was persisted under the same name
\* with the same file type before.
repersist(entry_dict, file_type) ==
    LET existing_dict == safe_load(dump(file_type, entry_dict))
        dicts_are_equal == deep_dict_nan_equal(existing_dict.items, entry_dict.items)
    IN  [file_type |-> file_type,
         dicts_are_equal |-> dicts_are_equal,
         wrote |-> overwrite_of(file_type) \/ dicts_are_equal,
         error |-> ~overwrite_of(file_type) /\ ~dicts_are_equal]

NotCompared == [done |-> FALSE]

NotPersisted == [done |-> FALSE]

\* nan_equal(a, b), nan_equal(b, a) and nan_equal(a, a) are evaluated.
CompareValues ==
    /\ nan_cmp # Idle
    /\ ~nan_cmp.compared.done
    /\ nan_cmp' = [nan_cmp EXCEPT !.compared =
                       [done |-> TRUE,
                        ab |-> deep_nan_equal(nan_cmp.a, nan_cmp.b),
                        ba |-> deep_nan_equal(nan_cmp.b, nan_cmp.a),
                        aa |-> deep_nan_equal(nan_cmp.a, nan_cmp.a)]]
    /\ UNCHANGED <<archiveVars, parseVars, fluxVars, impVars, chanVars, linkVars,
                   uploadVars, gasVars, handleVars, rowVars, sampleVars>>

\* create_archive is called a second time with the entry dict a.
Repersist ==
    /\ nan_cmp # Idle
    /\ ~nan_cmp.persisted.done
    /\ nan_cmp.a.t = "dict"
    /\ \E file_type \in {"yaml", "json"} :
        nan_cmp' = [nan_cmp EXCEPT !.persisted =
                       [done |-> TRUE, res |-> repersist(nan_cmp.a, file_type)]]
    /\ UNCHANGED <<archiveVars, parseVars, fluxVars, impVars, chanVars, linkVars,
                   uploadVars, gasVars, handleVars, rowVars, sampleVars>>

InitCompare ==
    /\ ArchiveInit
    /\ files = [n \in FileNames |-> NoFile]
    /\ ParseIdle
    /\ FluxIdle
    /\ ImpIdle /\ ChanIdle /\ LinkIdle /\ UploadIdle /\ GasIdle
    /\ HandleIdle /\ RowIdle /\ SampleIdle
    /\ nan_cmp \in {[a |-> a, b |-> b, compared |-> NotCompared, persisted |-> NotPersisted] :
                      a \in NestedValues, b \in NestedValues}

NextCompare ==
    \/ CompareValues
    \/ Repersist

SpecCompare == InitCompare /\ [][NextCompare]_vars

\* ------------------------------------------------------------------ C25
\* The value holds a NaN at some depth.
RECURSIVE HasNaN(_)
HasNaN(value) ==
    IF value.t = "float"
    THEN value.v = NaN
    ELSE \E i \in DOMAIN value.items : HasNaN(value.items[i].val)

C26_InstrumentExistsBeforeProcess ==
    (/\ ProcessCall.made
     /\ ProcessCall.wrote /\ ProcessCall.processed
     /\ \E i \in DOMAIN sources : sources[i].port.set) =>
        files[instrument_filename].exists

\* ------------------------------------------------------------------ C27
\* C27: a reference returned by link_growth_process names the upload and the
\* entry_id of one of the entries found, whether one entry was found or
\* several.
C27_ReferenceNamesUploadOfEntry ==
    (/\ link_out # NotCalled
     /\ link_out.fn = "link_growth_process"
     /\ link_out.ret # NoRef) =>
        \E i \in DOMAIN search_data :
            link_out.ret =
                <<get_reference(search_data[i].upload_id, search_data[i].entry_id), "#data">>

\* ------------------------------------------------------------------ C28
\* C28: a Source with a stored flux has a temperature series of its own, and
\* the time dataset linked into its flux group is the temperature time
\* dataset of the row the Source was appended for.
C28_FluxUsesOwnSeries ==
    \A k \in DOMAIN sources :
        sources[k].flux =>
            /\ sources[k].type # "PLASMA"
            /\ sources[k].flux_time = AxisOf(sources[k].row)

\* A PLASMA row with a calibrated loop follows a cell row whose flux was
\* stored: temp_mv_time still names the dataset of the cell row.
C28_Witness ==
    /\ Len(sources) = 2
    /\ sources[1].flux /\ sources[1].flux_time = AxisOf(0)
    /\ sources[2].type = "PLASMA" /\ sources[2].epic_loop \in Calibrated
    /\ ~sources[2].flux
    /\ temp_mv_time = AxisOf(0)
    /\ pc = "failed" /\ err = "AttributeError"

\* ---------------------------------------------------------- sample status
MaxPositions == 3

MaxNormalize == 2

\* The status of the substrate at a position of the holder; present is false
\* for a position without substrate.
Status(as_delivered, fresh, was_processed, grown) ==
    [present |-> TRUE, as_delivered |-> as_delivered, fresh |-> fresh,
     processed |-> was_processed, grown |-> grown]

NoSubstrate ==
    [present |-> FALSE, as_delivered |-> FALSE, fresh |-> FALSE,
     processed |-> FALSE, grown |-> FALSE]

\* A substrate as delivered, a fresh one, one grown by an earlier growth, and
\* one grown and processed before.
Positions ==
    {NoSubstrate,
     Status(TRUE, FALSE, FALSE, FALSE),
     Status(FALSE, TRUE, FALSE, FALSE),
     Status(FALSE, FALSE, FALSE, TRUE),
     Status(FALSE, FALSE, TRUE, TRUE)}

\* utils.py 506-570: the four flags are written into the sample file, which
\* is processed again.
set_sample_status(sample_reference, as_delivered, fresh, was_processed, grown) ==
    Status(as_delivered, fresh, was_processed, grown)

\* processes.py 882-896: the loop over the positions of the holder; processed
\* is the grown flag the substrate has when the growth is normalized.
normalize(positions) ==
    [i \in DOMAIN positions |->
        IF positions[i].present
        THEN set_sample_status(positions[i], FALSE, FALSE,
                               IF positions[i].grown THEN positions[i].grown ELSE FALSE,
                               TRUE)
        ELSE positions[i]]

\* GrowthMbePDI.normalize runs on the growth entry, the first time or again.
Normalize ==
    /\ samples # Idle
    /\ samples.n < MaxNormalize
    /\ samples' = [samples EXCEPT !.positions = normalize(@), !.n = @ + 1]
    /\ UNCHANGED <<archiveVars, parseVars, fluxVars, impVars, chanVars, linkVars,
                   uploadVars, gasVars, handleVars, rowVars, compareVars>>

InitSample ==
    /\ ArchiveInit
    /\ files = [n \in FileNames |-> NoFile]
    /\ ParseIdle
    /\ FluxIdle
    /\ ImpIdle /\ ChanIdle /\ LinkIdle /\ UploadIdle /\ GasIdle
    /\ HandleIdle /\ RowIdle /\ CompareIdle
    /\ samples \in {[before |-> h, positions |-> h, n |-> 0] :
                      h \in SeqsUpTo(Positions, MaxPositions)}

NextSample == Normalize

SpecSample == InitSample /\ [][NextSample]_vars

\* ------------------------------------------------------------------ C30
\* C30: once the growth is normalized, the first time or again, every
\* substrate on the holder is grown, not fresh and not as delivered, and is
\* processed exactly when it was grown before this growth.
C30_NormalizeAgainKeepsStatus ==
    (samples # Idle /\ samples.n >= 1) =>
        \A i \in DOMAIN samples.positions :
            samples.before[i].present =>
                samples.positions[i] =
                    Status(FALSE, FALSE, samples.before[i].grown, TRUE)

====
